---- MODULE Spec2Model ----
(***************************************************************************)
(* A model of uniharmonic/monophonic: the GLogger facade (level resolver,  *)
(* two-sink writer, runtime level change), the gin middleware pair         *)
(* GinLogger / GinRecovery and the response envelope helpers OK / Error.   *)
(*                                                                         *)
(* Texts (level names, error texts) are sequences of one-character         *)
(* strings so that letter-casing and substring tests are computed.         *)
(***************************************************************************)
EXTENDS Integers, Sequences, FiniteSets, TLC

VARIABLES
    Default,        \* the process-wide *GLogger (xylitol.go:11), by value
    lastCfg,        \* history: the operation that last configured Default and its level argument
    calls,          \* history: the log calls made on Default in the current window
    console,        \* lines written to os.Stdout in the current window
    files,          \* lines written to each log file in the current window
    heap,           \* the Response objects; heap[DefaultReturn] is the shared template
    stack,          \* the flag given to GinRecovery(stack) when the engine was set up
    pc,             \* where the (single) worker is: idle, handler, recover, fields, done
    c,              \* the gin Context of the request being served
    cur,            \* chain position of the route handler that is running
    ran,            \* history: chain positions of the route handlers that have started
    nops,           \* operations done by the route handlers of this request
    panicVal,       \* the value of the panic being unwound
    recovered,      \* history: how many times recover() returned a panic in this request
    uuid,           \* number of trace ids minted in this request
    acts,           \* history: what the route handlers did in this request, in order
    levelIn,        \* input of a level resolver run
    levelOut,       \* its result
    gormLogger,     \* the *GormLogger the application holds (gorm_logger.go:24), by value
    traces,         \* history: the arguments of the Trace calls made in the current window
    lastMode,       \* history: the argument of the last LogMode call
    wk,             \* concurrent workers: where each is inside SetLogLevel or a log call, and its locals
    levelWords,     \* the two machine words of the string Default.LogLevel: data pointer and length
    overlapped,     \* history: a SetLogLevel began while another was running on the same logger
    raceHist,       \* history: for each log call of a worker, what it captured and what was pending
    nrace,          \* how many SetLogLevel calls, replacements and log calls the workers have begun
    arrived         \* history: the request being served, as it arrived

vars == << Default, lastCfg, calls, console, files, heap, stack, pc, c, cur, ran, nops,
           panicVal, recovered, uuid, acts, levelIn, levelOut, gormLogger, traces, lastMode,
           wk, levelWords, overlapped, raceHist, nrace, arrived >>

logVars == << calls, console, files >>
ctxVars == << pc, c, cur, ran, nops, panicVal, recovered, uuid, acts, arrived >>
lvlVars == << levelIn, levelOut >>
dbVars == << gormLogger, traces, lastMode >>
raceVars == << wk, levelWords, overlapped, raceHist, nrace >>

(***************************************************************************)
(* Bounds of the model.                                                    *)
(***************************************************************************)
MaxCalls == 2        \* application log calls in one window
MaxOps == 2          \* operations the route handlers perform in one request
RouteHandlers == 2   \* route handlers registered after the two middleware
MaxRaceOps == 3      \* SetLogLevel calls, replacements of Default and log calls the concurrent workers make

(***************************************************************************)
(* Characters and texts.                                                   *)
(***************************************************************************)
LetterPairs ==
    { <<"a","A">>, <<"b","B">>, <<"c","C">>, <<"d","D">>, <<"e","E">>, <<"f","F">>,
      <<"g","G">>, <<"h","H">>, <<"i","I">>, <<"j","J">>, <<"k","K">>, <<"l","L">>,
      <<"m","M">>, <<"n","N">>, <<"o","O">>, <<"p","P">>, <<"q","Q">>, <<"r","R">>,
      <<"s","S">>, <<"t","T">>, <<"u","U">>, <<"v","V">>, <<"w","W">>, <<"x","X">>,
      <<"y","Y">>, <<"z","Z">> }

LowerOf == [u \in {p[2] : p \in LetterPairs} |-> (CHOOSE p \in LetterPairs : p[2] = u)[1]]
UpperOf == [l \in {p[1] : p \in LetterPairs} |-> (CHOOSE p \in LetterPairs : p[1] = l)[2]]

\* Letters outside ASCII, written by their code points.  unicode.ToLower maps
\* U+0130 (capital I with dot above) to i and U+212A (Kelvin sign) to k, and a
\* capital such as U+00C9 to its small letter U+00E9; unicode.ToUpper maps
\* U+0131 (dotless i) to I and U+017F (long s) to S.
UnicodeLower == { <<"U+0130", "i">>, <<"U+212A", "k">>, <<"U+00C9", "U+00E9">> }
UnicodeUpper == { <<"U+0131", "I">>, <<"U+017F", "S">>, <<"U+00E9", "U+00C9">> }

\* unicode.ToLower / unicode.ToUpper of one character
ToLowerChar(ch) ==
    IF ch \in DOMAIN LowerOf THEN LowerOf[ch]
    ELSE IF \E p \in UnicodeLower : p[1] = ch
         THEN (CHOOSE p \in UnicodeLower : p[1] = ch)[2]
         ELSE ch
ToUpperChar(ch) ==
    IF ch \in DOMAIN UpperOf THEN UpperOf[ch]
    ELSE IF \E p \in UnicodeUpper : p[1] = ch
         THEN (CHOOSE p \in UnicodeUpper : p[1] = ch)[2]
         ELSE ch

\* strings.ToLower / bytes.ToLower: every character by unicode.ToLower
ToLower(text) == [i \in 1..Len(text) |-> ToLowerChar(text[i])]
ToUpper(text) == [i \in 1..Len(text) |-> ToUpperChar(text[i])]

\* every letter-casing of a text
RECURSIVE Casings(_)
Casings(text) ==
    IF text = <<>>
    THEN { <<>> }
    ELSE { <<ch>> \o rest : ch \in {ToLowerChar(Head(text)), ToUpperChar(Head(text))},
                             rest \in Casings(Tail(text)) }

T_debug  == <<"d","e","b","u","g">>
T_info   == <<"i","n","f","o">>
T_warn   == <<"w","a","r","n">>
T_error  == <<"e","r","r","o","r">>
T_dpanic == <<"d","p","a","n","i","c">>
T_panic  == <<"p","a","n","i","c">>
T_fatal  == <<"f","a","t","a","l">>

(***************************************************************************)
(* Level resolver: logger.GetLogLevel over zapcore.ParseLevel.             *)
(***************************************************************************)
DebugLevel  == -1
InfoLevel   == 0
WarnLevel   == 1
ErrorLevel  == 2
DPanicLevel == 3
PanicLevel  == 4
FatalLevel  == 5
\* stands for the non-nil error of zapcore.ParseLevel
ErrUnrecognized == 99

\* zapcore.Level.unmarshalText: the exact lowercase or uppercase spelling, "" is info
unmarshalText(text) ==
    CASE text = T_debug  \/ text = ToUpper(T_debug)  -> DebugLevel
      [] text = T_info   \/ text = ToUpper(T_info) \/ text = <<>> -> InfoLevel
      [] text = T_warn   \/ text = ToUpper(T_warn)   -> WarnLevel
      [] text = T_error  \/ text = ToUpper(T_error)  -> ErrorLevel
      [] text = T_dpanic \/ text = ToUpper(T_dpanic) -> DPanicLevel
      [] text = T_panic  \/ text = ToUpper(T_panic)  -> PanicLevel
      [] text = T_fatal  \/ text = ToUpper(T_fatal)  -> FatalLevel
      [] OTHER -> ErrUnrecognized

\* a resolver that does not retry with the lowercased text
ParseLevelExact(text) == unmarshalText(text)

\* zapcore.ParseLevel: the text as given, then lowercased
ParseLevel(text) ==
    IF unmarshalText(text) # ErrUnrecognized
    THEN unmarshalText(text)
    ELSE unmarshalText(ToLower(text))

GetLogLevel(level) ==
    LET lv == ParseLevel(level)
    IN  IF lv = ErrUnrecognized THEN InfoLevel ELSE lv

(***************************************************************************)
(* Logger facade: xylitol.New, GLogger.SetLogLevel and the leveled calls.  *)
(* A zap.Logger is the tee of its cores; a core is a sink and a threshold. *)
(***************************************************************************)
Stdout == "os.Stdout"
DefaultLogFile == "tmp/run.log"
Paths == { DefaultLogFile, "tmp/app.log" }

T_Info    == <<"I","n","f","o">>
T_Warn    == <<"W","a","r","n">>
T_invalid == <<"i","n","v","a","l","i","d">>

\* the level texts the application configures loggers with
LevelTexts == { T_debug, T_Warn, T_fatal, T_invalid }

\* zapcore.NewCore(encoder, sink, level)
NewCore(sink, path, level) == [sink |-> sink, path |-> path, level |-> level]

\* zapcore.NewTee(console core, file core)
NewTee(logPath, logLevel) ==
    << NewCore("console", Stdout, logLevel), NewCore("file", logPath, logLevel) >>

\* a New whose file core is built at a fixed Info threshold
NewFileAtInfo(level, logfile) ==
    [ ZapLogger |-> << NewCore("console", Stdout, GetLogLevel(level)),
                       NewCore("file", logfile, InfoLevel) >>,
      LogLevel  |-> level,
      LogPath   |-> logfile ]

\* xylitol.New(level, logfile)
New(level, logfile) ==
    LET logLevel == GetLogLevel(level)
        logPath  == logfile
    IN  [ ZapLogger |-> NewTee(logPath, logLevel),
          LogLevel  |-> level,
          LogPath   |-> logPath ]

\* a SetLogLevel that stores the text and keeps the old writer
SetLogLevelKeepWriter(log, level) == [log EXCEPT !.LogLevel = level]

\* a SetLogLevel that stores the text in lower case
SetLogLevelLowered(log, level) ==
    [log EXCEPT !.LogLevel = ToLower(level),
                !.ZapLogger = NewTee(log.LogPath, GetLogLevel(level))]

\* GLogger.SetLogLevel(level), on the logger value log
SetLogLevel(log, level) ==
    LET log1     == [log EXCEPT !.LogLevel = level]
        logLevel == GetLogLevel(log1.LogLevel)
        logPath  == log1.LogPath
    IN  [log1 EXCEPT !.ZapLogger = NewTee(logPath, logLevel)]

\* zapcore.LevelEnabler: a core takes an entry at or above its threshold
Enabled(core, level) == level >= core.level

\* one core of the tee writes the entry to its sink, or drops it
CoreWrite(out, core, ent) ==
    IF ~ Enabled(core, ent.level)
    THEN out
    ELSE IF core.sink = "console"
         THEN [out EXCEPT !.console = Append(@, ent)]
         ELSE [out EXCEPT !.files[core.path] = Append(@, ent)]

\* zap.Logger.log: the call is recorded, every core of the tee is offered the entry
ZapLog(log, out, level, msg, fields) ==
    LET ent  == [level |-> level, msg |-> msg, fields |-> fields]
        out0 == [out EXCEPT !.calls = Append(@, ent)]
        out1 == CoreWrite(out0, log.ZapLogger[1], ent)
    IN  CoreWrite(out1, log.ZapLogger[2], ent)

GLogger_Debug(log, out, msg, fields) == ZapLog(log, out, DebugLevel, msg, fields)
GLogger_Info(log, out, msg, fields)  == ZapLog(log, out, InfoLevel, msg, fields)
GLogger_Warn(log, out, msg, fields)  == ZapLog(log, out, WarnLevel, msg, fields)
GLogger_Error(log, out, msg, fields) == ZapLog(log, out, ErrorLevel, msg, fields)
\* Fatal writes the entry as the others do; zap then calls os.Exit(1)
GLogger_Fatal(log, out, msg, fields) == ZapLog(log, out, FatalLevel, msg, fields)

\* the sinks as one value, and its write-back
Out == [calls |-> calls, console |-> console, files |-> files]
SetOut(out) ==
    /\ calls' = out.calls
    /\ console' = out.console
    /\ files' = out.files

EmptyOut == [calls |-> <<>>, console |-> <<>>, files |-> [p \in Paths |-> <<>>]]

\* messages and fields of the application's own log calls
AppMsgs == { <<"m1">>, <<"m2">> }
AppFields == [kind |-> "app"]

Idle == pc \in {"idle", "done"}

\* the application replaces the process-wide logger: Default = New(level, logfile)
ReplaceDefault(level, logfile) ==
    /\ Idle
    /\ Default' = New(level, logfile)
    /\ lastCfg' = [by |-> "New", level |-> level, path |-> logfile]
    /\ UNCHANGED << logVars, heap, stack, ctxVars, lvlVars, dbVars, raceVars >>

\* Default.SetLogLevel(level)
DoSetLogLevel(level) ==
    /\ Idle
    /\ Default' = SetLogLevel(Default, level)
    /\ lastCfg' = [lastCfg EXCEPT !.by = "SetLogLevel", !.level = level]
    /\ UNCHANGED << logVars, heap, stack, ctxVars, lvlVars, dbVars, raceVars >>

AppLog(out) ==
    /\ Idle
    /\ Len(calls) < MaxCalls
    /\ SetOut(out)
    /\ UNCHANGED << Default, lastCfg, heap, stack, ctxVars, lvlVars, dbVars, raceVars >>

\* Default.Debug(msg) ... Default.Error(msg) called by the application
AppDebug(msg) == AppLog(GLogger_Debug(Default, Out, msg, AppFields))
AppInfo(msg)  == AppLog(GLogger_Info(Default, Out, msg, AppFields))
AppWarn(msg)  == AppLog(GLogger_Warn(Default, Out, msg, AppFields))
AppError(msg) == AppLog(GLogger_Error(Default, Out, msg, AppFields))

\* Default.Fatal(msg): the entry is written and the process exits; no
\* operation of the program runs after it
AppFatal(msg) ==
    /\ Idle
    /\ Len(calls) < MaxCalls
    /\ SetOut(GLogger_Fatal(Default, Out, msg, AppFields))
    /\ pc' = "exited"
    /\ UNCHANGED << Default, lastCfg, heap, stack, c, cur, ran, nops, panicVal,
                    recovered, uuid, acts, arrived, lvlVars, dbVars, raceVars >>

(***************************************************************************)
(* The gin Context as the middleware and the envelope helpers use it.      *)
(***************************************************************************)
abortIndex == 63
noWritten == -1
defaultStatus == 200
StatusOK == 200
StatusNoContent == 204
StatusInternalServerError == 500
NoKey == 0
DefaultReturn == 1

\* the chain is GinLogger, GinRecovery, then the route handlers
ChainLen == 2 + RouteHandlers

\* url.Values not yet parsed (a nil map), and parsed
NilValues == [nil |-> TRUE, m |-> <<>>]
Values(m) == [nil |-> FALSE, m |-> m]

\* an http.Request: the request line, the Content-Type header (as the pieces
\* around its ";"), the raw query, the unread body, and the parsed post form
NewRequest(method, path, fullPath, contentType, rawQuery, body) ==
    [ Method |-> method, Path |-> path, fullPath |-> fullPath,
      ContentType |-> contentType, RawQuery |-> rawQuery,
      Body |-> [data |-> body, err |-> FALSE], PostForm |-> NilValues ]

NoRequest == NewRequest("", "", "", <<>>, <<>>, <<>>)
Requests ==
    { NewRequest("GET", "/ping", "/ping", <<>>, <<>>, <<>>),
      NewRequest("POST", "/api/v1/user/7", "/api/v1/user/:id", <<>>, <<>>, <<>>) }

\* a fresh Context for a request: gin's Context.reset
NewContext(r) ==
    [ index   |-> -1,
      result  |-> NoKey,
      Errors  |-> <<>>,
      Writer  |-> [status |-> defaultStatus, size |-> noWritten, sent |-> 0, body |-> <<>>],
      Request |-> r ]

FullPath(ctx) == ctx.Request.fullPath

\* responseWriter.Written
Written(ctx) == ctx.Writer.size # noWritten

\* Context.Status -> responseWriter.WriteHeader: a written header is not overridden
Status(ctx, code) ==
    IF code > 0 /\ ctx.Writer.status # code
    THEN IF Written(ctx) THEN ctx ELSE [ctx EXCEPT !.Writer.status = code]
    ELSE ctx

\* responseWriter.WriteHeaderNow: the status line goes out once
WriteHeaderNow(ctx) ==
    IF ~ Written(ctx)
    THEN [ctx EXCEPT !.Writer.size = 0, !.Writer.sent = ctx.Writer.status]
    ELSE ctx

\* responseWriter.Write; the body is taken whatever the status sent, as
\* httptest.ResponseRecorder takes it
Write(ctx, data) ==
    LET ctx1 == WriteHeaderNow(ctx)
    IN  [ctx1 EXCEPT !.Writer.size = @ + 1, !.Writer.body = Append(@, data)]

\* an Abort that leaves the chain position alone
AbortNoop(ctx) == ctx

\* Context.Abort
Abort(ctx) == [ctx EXCEPT !.index = abortIndex]

IsAborted(ctx) == ctx.index >= abortIndex

bodyAllowedForStatus(status) ==
    ~ ( (status >= 100 /\ status <= 199) \/ status = 204 \/ status = 304 )

\* Context.JSON -> Context.Render
JSON(ctx, code, obj) ==
    LET ctx1 == Status(ctx, code)
    IN  IF ~ bodyAllowedForStatus(code)
        THEN WriteHeaderNow(ctx1)
        ELSE Write(ctx1, obj)

\* Context.AbortWithStatusJSON
AbortWithStatusJSON(ctx, code, obj) == JSON(Abort(ctx), code, obj)

\* Context.AbortWithStatus
AbortWithStatus(ctx, code) == Abort(WriteHeaderNow(Status(ctx, code)))

\* Context.Set("result", res) and Context.Error(err)
Set(ctx, res) == [ctx EXCEPT !.result = res]
CtxError(ctx, err) == [ctx EXCEPT !.Errors = Append(@, [Err |-> err, Type |-> "private"])]

(***************************************************************************)
(* GResponse.Response and the helpers OK and Error.                        *)
(***************************************************************************)
NilData == "<nil>"
Datas == { "d1", "d2" }
Msgs == { "m1", "m2" }

NilErr == [nil |-> TRUE, text |-> ""]
Errs == { NilErr, [nil |-> FALSE, text |-> "bad creds"] }

\* a Go int as its high word and its low 32 bits (two's complement, low word signed)
GoInt(hi, lo) == [hi |-> hi, lo |-> lo]
FitsInt32(n) == (n.hi = 0 /\ n.lo >= 0) \/ (n.hi = -1 /\ n.lo < 0)
\* the conversion int32(code) keeps the low 32 bits
ToInt32(n) == n.lo
\* 401 and 2^32 + 401
Codes == { GoInt(0, 401), GoInt(1, 401) }

\* &Response{}
ZeroResponse ==
    [TraceID |-> <<>>, Code |-> 0, Info |-> "", Msg |-> "", Status |-> "", Data |-> NilData]

\* GLogger.GenerateTraceId: the n-th identifier minted is new
GenerateTraceId(n) == << "uuid", n + 1 >>

SetTraceID(h, res, id) == [h EXCEPT ![res].TraceID = id]
SetCode(h, res, code)  == [h EXCEPT ![res].Code = code]
SetMsg(h, res, msg)    == [h EXCEPT ![res].Msg = msg]
SetInfo(h, res, info)  == [h EXCEPT ![res].Info = info]
SetData(h, res, data)  == [h EXCEPT ![res].Data = data]
Success(h, res, isSuccess) ==
    IF ~ isSuccess THEN [h EXCEPT ![res].Status = "error"] ELSE h

\* Response.GetFields
ResponseGetFields(r) ==
    [ requestId |-> r.TraceID, code |-> r.Code, info |-> r.Info,
      msg |-> r.Msg, status |-> r.Status, data |-> r.Data ]

\* a Clone that hands back the receiver itself
CloneAlias(h, res) == [heap |-> h, ptr |-> res]

\* Response.Clone: a new object holding a copy of the fields
Clone(h, res) == [heap |-> Append(h, h[res]), ptr |-> Len(h) + 1]

\* encoding/json of a Response: omitempty drops the zero fields, data stays
JSONKeys(r) ==
    {"data"} \cup (IF r.TraceID # <<>> THEN {"requestId"} ELSE {})
             \cup (IF r.Code # 0 THEN {"code"} ELSE {})
             \cup (IF r.Info # "" THEN {"info"} ELSE {})
             \cup (IF r.Msg # "" THEN {"msg"} ELSE {})
             \cup (IF r.Status # "" THEN {"status"} ELSE {})
Marshal(r) ==
    [ k \in JSONKeys(r) |->
        CASE k = "data" -> r.Data
          [] k = "requestId" -> r.TraceID
          [] k = "code" -> r.Code
          [] k = "info" -> r.Info
          [] k = "msg" -> r.Msg
          [] k = "status" -> r.Status ]

TagReturn == "[Return]"
TagDefault == "[Receive]"

\* what one call works on: the Response objects, the Context, the trace ids, the sinks
World == [heap |-> heap, c |-> c, uuid |-> uuid, out |-> Out]
SetWorld(w) ==
    /\ heap' = w.heap
    /\ c' = w.c
    /\ uuid' = w.uuid
    /\ SetOut(w.out)

\* response.Error(c, code, err, msg)
ErrorCall(w, log, code, err, msg) ==
    LET cl  == Clone(w.heap, DefaultReturn)
        res == cl.ptr
        h1  == Success(cl.heap, res, FALSE)
        h2  == SetTraceID(h1, res, GenerateTraceId(w.uuid))
        h3  == SetCode(h2, res, ToInt32(code))
        h4  == SetMsg(h3, res, msg)
        h5  == SetInfo(h4, res, msg)
        h6  == IF ~ err.nil THEN SetInfo(h5, res, err.text) ELSE h5
        out1 == GLogger_Error(log, w.out, <<TagReturn, FullPath(w.c)>>, ResponseGetFields(h6[res]))
        c1  == Set(w.c, res)
        c2  == AbortWithStatusJSON(c1, StatusOK, Marshal(h6[res]))
    IN  [heap |-> h6, c |-> c2, uuid |-> w.uuid + 1, out |-> out1]

\* response.OK(c, data, msg)
OKCall(w, log, data, msg) ==
    LET cl  == Clone(w.heap, DefaultReturn)
        res == cl.ptr
        h1  == Success(cl.heap, res, TRUE)
        h2  == SetTraceID(h1, res, GenerateTraceId(w.uuid))
        h3  == SetCode(h2, res, StatusOK)
        h4  == SetMsg(h3, res, msg)
        h5  == SetInfo(h4, res, msg)
        h6  == SetData(h5, res, data)
        out1 == GLogger_Info(log, w.out, <<TagReturn, FullPath(w.c)>>, ResponseGetFields(h6[res]))
        c1  == Set(w.c, res)
        c2  == AbortWithStatusJSON(c1, StatusOK, Marshal(h6[res]))
    IN  [heap |-> h6, c |-> c2, uuid |-> w.uuid + 1, out |-> out1]

(***************************************************************************)
(* Panic values and GinRecovery.                                           *)
(***************************************************************************)
T_brokenPipe == <<"b","r","o","k","e","n"," ","p","i","p","e">>
T_connReset ==
    <<"c","o","n","n","e","c","t","i","o","n"," ","r","e","s","e","t"," ","b","y"," ","p","e","e","r">>
T_write == <<"w","r","i","t","e",":"," ">>
T_read == <<"r","e","a","d",":"," ">>
T_refused == <<"c","o","n","n","e","c","t","i","o","n"," ","r","e","f","u","s","e","d">>

\* strings.Contains
Contains(text, sub) ==
    \E i \in 0..(Len(text) - Len(sub)) : SubSeq(text, i + 1, i + Len(sub)) = sub

\* a panic value: its dynamic type and, for an error, the error it holds in Err
NoPanic == [type |-> "nil", Err |-> [type |-> "none", text |-> <<>>]]
PanicString == [type |-> "string", Err |-> [type |-> "none", text |-> <<>>]]
OpError(errType, text) == [type |-> "*net.OpError", Err |-> [type |-> errType, text |-> text]]
\* fmt.Errorf("%w", a *net.OpError holding a *os.SyscallError)
WrappedOpError(text) == [type |-> "*fmt.wrapError", Err |-> [type |-> "*net.OpError", text |-> text]]

PanicValues ==
    { PanicString,
      OpError("*os.SyscallError", T_write \o T_brokenPipe),
      OpError("*os.SyscallError", T_read \o ToUpper(T_connReset)),
      OpError("*os.SyscallError",
              T_write \o <<"B","R","O","U+212A","E","N"," ","P","U+0130","P","E">>),
      OpError("*os.SyscallError", T_write \o T_refused),
      OpError("*errors.errorString", T_brokenPipe),
      WrappedOpError(T_write \o T_brokenPipe) }

\* the brokenPipe flag of GinRecovery
brokenPipe(err) ==
    IF err.type = "*net.OpError"
    THEN IF err.Err.type = "*os.SyscallError"
         THEN \/ Contains(ToLower(err.Err.text), T_brokenPipe)
              \/ Contains(ToLower(err.Err.text), T_connReset)
         ELSE FALSE
    ELSE FALSE

\* httputil.DumpRequest(c.Request, false): the request line and headers
DumpRequest(r) == [Method |-> r.Method, Path |-> r.Path]

RecoveryFields(ctx, stk, err) ==
    IF stk
    THEN [error |-> err, request |-> DumpRequest(ctx.Request), stack |-> "debug.Stack()"]
    ELSE [error |-> err, request |-> DumpRequest(ctx.Request)]

\* a deferred function that answers 500 whether or not a panic was recovered
GinRecoveryAlways(w, log, stk, err) ==
    [w EXCEPT !.out = GLogger_Error(log, w.out, <<"[Recovery from panic]">>,
                                    RecoveryFields(w.c, stk, err)),
              !.c = AbortWithStatus(w.c, StatusInternalServerError)]

\* the deferred function of GinRecovery(stk); err is what recover() returned
GinRecovery(w, log, stk, err) ==
    IF err = NoPanic
    THEN w
    ELSE IF brokenPipe(err)
         THEN [w EXCEPT
                 !.out = GLogger_Error(log, w.out, <<w.c.Request.Path>>,
                                       [error |-> err, request |-> DumpRequest(w.c.Request)]),
                 !.c = Abort(CtxError(w.c, err))]
         ELSE [w EXCEPT
                 !.out = GLogger_Error(log, w.out, <<"[Recovery from panic]">>,
                                       RecoveryFields(w.c, stk, err)),
                 !.c = AbortWithStatus(w.c, StatusInternalServerError)]

(***************************************************************************)
(* Request capture: getParams over net/http's form parsing.  Header        *)
(* values, queries and bodies are texts; a multipart body is the text of   *)
(* its delimiter lines ("--" then the boundary), and per part the marker   *)
(* "form-data", one character of field name and one character of value.    *)
(***************************************************************************)
maxMemory == 32 * 1024 * 1024

CT_urlencoded == <<"a","p","p","l","i","c","a","t","i","o","n","/","x","-","w","w","w","-","f","o","r","m","-","u","r","l","e","n","c","o","d","e","d">>
CT_formdata == <<"a","p","p","l","i","c","a","t","i","o","n","/","f","o","r","m","-","d","a","t","a">>
CT_multipart == <<"m","u","l","t","i","p","a","r","t","/","f","o","r","m","-","d","a","t","a">>
CT_json == <<"a","p","p","l","i","c","a","t","i","o","n","/","j","s","o","n">>
P_formdata == <<"f","o","r","m","-","d","a","t","a">>
P_boundary == <<"b","o","u","n","d","a","r","y","=">>

\* the byte values of the characters the model's texts are made of
Digits == <<"0","1","2","3","4","5","6","7","8","9">>
Uppers == <<"A","B","C","D","E","F","G","H","I","J","K","L","M",
            "N","O","P","Q","R","S","T","U","V","W","X","Y","Z">>
Lowers == [i \in 1..26 |-> ToLowerChar(Uppers[i])]
SpecialBytes ==
    { <<"\t", 9>>, <<"\n", 10>>, <<"\r", 13>>, <<" ", 32>>, <<"!", 33>>, <<"\"", 34>>,
      <<"#", 35>>, <<"$", 36>>, <<"%", 37>>, <<"&", 38>>, <<"'", 39>>, <<"(", 40>>, <<")", 41>>, <<"*", 42>>, <<"+", 43>>,
      <<",", 44>>, <<"-", 45>>, <<".", 46>>, <<"/", 47>>, <<":", 58>>, <<";", 59>>,
      <<"<", 60>>, <<"=", 61>>, <<">", 62>>, <<"?", 63>>, <<"@", 64>>, <<"[", 91>>,
      <<"\\", 92>>, <<"]", 93>>, <<"^", 94>>, <<"_", 95>>, <<"{", 123>>, <<"|", 124>>,
      <<"}", 125>>, <<"~", 126>> }
Specials == [x \in {p[1] : p \in SpecialBytes} |-> (CHOOSE p \in SpecialBytes : p[1] = x)[2]]
IndexIn(seq, x) == CHOOSE i \in 1..Len(seq) : seq[i] = x
IsIn(seq, x) == \E i \in 1..Len(seq) : seq[i] = x
Byte(ch) ==
    CASE IsIn(Digits, ch) -> 47 + IndexIn(Digits, ch)
      [] IsIn(Uppers, ch) -> 64 + IndexIn(Uppers, ch)
      [] IsIn(Lowers, ch) -> 96 + IndexIn(Lowers, ch)
      [] OTHER -> Specials[ch]
Chars == {Digits[i] : i \in 1..10} \cup {Uppers[i] : i \in 1..26}
           \cup {Lowers[i] : i \in 1..26} \cup DOMAIN Specials
CharOf(b) == CHOOSE ch \in Chars : Byte(ch) = b

\* strings.Cut(text, sep) for a one-character separator
Cut(text, sep) ==
    LET at == {i \in 1..Len(text) : text[i] = sep}
    IN  IF at = {}
        THEN [before |-> text, after |-> <<>>, found |-> FALSE]
        ELSE LET i == CHOOSE i \in at : \A j \in at : i <= j
             IN  [before |-> SubSeq(text, 1, i - 1),
                  after |-> SubSeq(text, i + 1, Len(text)), found |-> TRUE]

\* strings.Split(text, ";")[0]
SplitFirst(text) == Cut(text, ";").before

\* unicode.IsSpace on the characters the model's texts are made of
IsSpace(ch) == ch \in {" ", "\t", "\n", "\r"}

\* strings.TrimLeftFunc(text, unicode.IsSpace) and strings.TrimSpace
RECURSIVE TrimLeft(_)
TrimLeft(text) == IF text # <<>> /\ IsSpace(Head(text)) THEN TrimLeft(Tail(text)) ELSE text
RECURSIVE TrimRight(_)
TrimRight(text) ==
    IF text # <<>> /\ IsSpace(text[Len(text)])
    THEN TrimRight(SubSeq(text, 1, Len(text) - 1)) ELSE text
TrimSpace(text) == TrimRight(TrimLeft(text))

HasPrefix(text, prefix) ==
    Len(text) >= Len(prefix) /\ SubSeq(text, 1, Len(prefix)) = prefix

\* the value of a hexadecimal digit, or -1
Unhex(ch) ==
    CASE IsIn(Digits, ch) -> IndexIn(Digits, ch) - 1
      [] IsIn(SubSeq(Uppers, 1, 6), ch) -> 9 + IndexIn(Uppers, ch)
      [] IsIn(SubSeq(Lowers, 1, 6), ch) -> 9 + IndexIn(Lowers, ch)
      [] OTHER -> -1

\* url.QueryUnescape: %XX is a byte, "+" is a space, a bad escape is an error
RECURSIVE QueryUnescape(_)
QueryUnescape(text) ==
    IF text = <<>>
    THEN [ok |-> TRUE, text |-> <<>>]
    ELSE IF Head(text) = "%"
    THEN IF Len(text) >= 3 /\ Unhex(text[2]) >= 0 /\ Unhex(text[3]) >= 0
         THEN LET rest == QueryUnescape(SubSeq(text, 4, Len(text)))
              IN  [ok |-> rest.ok,
                   text |-> << CharOf(16 * Unhex(text[2]) + Unhex(text[3])) >> \o rest.text]
         ELSE [ok |-> FALSE, text |-> <<>>]
    ELSE LET rest == QueryUnescape(Tail(text))
         IN  [ok |-> rest.ok,
              text |-> << IF Head(text) = "+" THEN " " ELSE Head(text) >> \o rest.text]

\* url.Values.Add in front: the values of a key keep the order of the text
AddFirst(m, key, value) ==
    [k \in DOMAIN m \cup {key} |->
        IF k = key THEN << value >> \o (IF key \in DOMAIN m THEN m[key] ELSE <<>>) ELSE m[k]]

\* url.ParseQuery: the values by key, and whether any pair was malformed
RECURSIVE ParseQuery(_)
ParseQuery(query) ==
    LET add(rest, key, value) ==
            IF ~key.ok \/ ~value.ok THEN [rest EXCEPT !.err = TRUE]
            ELSE [rest EXCEPT !.m = AddFirst(rest.m, key.text, value.text)]
        pair(seg, rest, kv) ==
            IF IsIn(seg, ";") THEN [rest EXCEPT !.err = TRUE]
            ELSE IF seg = <<>> THEN rest
            ELSE add(rest, QueryUnescape(kv.before), QueryUnescape(kv.after))
        each(cut) == pair(cut.before, ParseQuery(cut.after), Cut(cut.before, "="))
    IN  IF query = <<>>
        THEN [m |-> <<>>, err |-> FALSE]
        ELSE each(Cut(query, "&"))

\* the order of Go strings
LexLess(a, b) ==
    \E i \in 1..(Len(b)) :
        /\ \A j \in 1..(i - 1) : j <= Len(a) /\ a[j] = b[j]
        /\ \/ i = Len(a) + 1
           \/ i <= Len(a) /\ Byte(a[i]) < Byte(b[i])

RECURSIVE SortKeys(_)
SortKeys(keys) ==
    IF keys = {}
    THEN <<>>
    ELSE LET k == CHOOSE k \in keys : \A o \in keys \ {k} : LexLess(k, o)
         IN  << k >> \o SortKeys(keys \ {k})

\* encoding/json on a string, as json.Marshal writes it (HTML escaping on):
\* " and \ behind a backslash; newline, carriage return and tab as \n, \r and
\* \t; < > & as \u003c, \u003e and \u0026; every other character as it is
RECURSIVE JSONEscape(_)
JSONEscape(text) ==
    IF text = <<>> THEN <<>>
    ELSE (CASE Head(text) = "\"" -> <<"\\","\"">>
            [] Head(text) = "\\" -> <<"\\","\\">>
            [] Head(text) = "\n" -> <<"\\","n">>
            [] Head(text) = "\r" -> <<"\\","r">>
            [] Head(text) = "\t" -> <<"\\","t">>
            [] Head(text) = "<" -> <<"\\","u","0","0","3","c">>
            [] Head(text) = ">" -> <<"\\","u","0","0","3","e">>
            [] Head(text) = "&" -> <<"\\","u","0","0","2","6">>
            [] OTHER -> << Head(text) >>) \o JSONEscape(Tail(text))
JSONString(text) == <<"\"">> \o JSONEscape(text) \o <<"\"">>

RECURSIVE JoinComma(_)
JoinComma(items) ==
    IF items = <<>> THEN <<>>
    ELSE IF Len(items) = 1 THEN items[1]
    ELSE items[1] \o <<",">> \o JoinComma(Tail(items))

\* json.Marshal(url.Values): an object of arrays of strings, keys in order
MarshalValues(values) ==
    LET keys == SortKeys(DOMAIN values)
        array(vals) == <<"[">> \o JoinComma([i \in 1..Len(vals) |-> JSONString(vals[i])]) \o <<"]">>
        member(k) == JSONString(k) \o <<":">> \o array(values[k])
    IN  <<"{">> \o JoinComma([i \in 1..Len(keys) |-> member(keys[i])]) \o <<"}">>

\* io.ReadAll(r.Body): what is left of the body, which is then used up
ReadAll(body) ==
    [data |-> body.data, err |-> body.err, body |-> [body EXCEPT !.data = <<>>]]

(***************************************************************************)
(* mime.ParseMediaType, as net/http calls it on the Content-Type header.   *)
(***************************************************************************)
T_boundary == <<"b","o","u","n","d","a","r","y">>
T_usascii == <<"u","s","-","a","s","c","i","i">>
T_utf8 == <<"u","t","f","-","8">>
CT_octet == <<"a","p","p","l","i","c","a","t","i","o","n","/","o","c","t","e","t","-","s","t","r","e","a","m">>

\* the errors of the mime package, "" for none
ErrNoMediaType == "mime: no media type"
ErrExpectedSlash == "mime: expected slash after first token"
ErrExpectedToken == "mime: expected token after slash"
ErrUnexpectedContent == "mime: unexpected content after media subtype"
ErrInvalidMediaParameter == "mime: invalid media parameter"
ErrDuplicateParameter == "mime: duplicate parameter name"

\* the characters that cannot stand in a token
TSpecials == { "(", ")", "<", ">", "@", ",", ";", ":", "\\", "\"", "/", "[", "]", "?", "=" }
isTokenChar(ch) == ch \in Chars /\ Byte(ch) > 32 /\ Byte(ch) < 127 /\ ch \notin TSpecials

\* consumeToken: the longest run of token characters v starts with
consumeToken(v) ==
    LET split(n) == [token |-> SubSeq(v, 1, n), rest |-> SubSeq(v, n + 1, Len(v))]
        upTo(notPos) ==
            IF notPos = {} THEN split(Len(v))
            ELSE split((CHOOSE i \in notPos : \A j \in notPos : i <= j) - 1)
    IN  upTo({ i \in 1..Len(v) : ~ isTokenChar(v[i]) })

\* consumeValue on a quoted string: up to the closing quote, a backslash
\* before a special character dropped; no closing quote or a line break
\* inside gives no value
RECURSIVE consumeQuoted(_, _, _)
consumeQuoted(v, i, buffer) ==
    IF i > Len(v) THEN [value |-> <<>>, rest |-> v]
    ELSE IF v[i] = "\"" THEN [value |-> buffer, rest |-> SubSeq(v, i + 1, Len(v))]
    ELSE IF v[i] = "\\" /\ i + 1 <= Len(v) /\ v[i + 1] \in TSpecials
    THEN consumeQuoted(v, i + 2, Append(buffer, v[i + 1]))
    ELSE IF v[i] \in {"\r", "\n"} THEN [value |-> <<>>, rest |-> v]
    ELSE consumeQuoted(v, i + 1, Append(buffer, v[i]))

\* consumeValue: a token or a quoted string
consumeValue(v) ==
    LET token(tk) == [value |-> tk.token, rest |-> tk.rest]
    IN  IF v = <<>> THEN [value |-> <<>>, rest |-> <<>>]
        ELSE IF Head(v) # "\"" THEN token(consumeToken(v))
        ELSE consumeQuoted(v, 2, <<>>)

\* consumeMediaParam: one "; name=value" off the front of v, the name in
\* lower case; an empty name says there is none
consumeMediaParam(v) ==
    LET none == [param |-> <<>>, value |-> <<>>, rest |-> v]
        value(param, rest, cv) ==
            IF cv.value = <<>> /\ cv.rest = rest THEN none
            ELSE [param |-> param, value |-> cv.value, rest |-> cv.rest]
        afterEquals(param, rest) == value(param, rest, consumeValue(rest))
        equals(param, rest) ==
            IF ~ HasPrefix(rest, <<"=">>) THEN none
            ELSE afterEquals(param, TrimLeft(Tail(rest)))
        name(tk) ==
            IF tk.token = <<>> THEN none
            ELSE equals(ToLower(tk.token), TrimLeft(tk.rest))
        semicolon(rest) ==
            IF ~ HasPrefix(rest, <<";">>) THEN none
            ELSE name(consumeToken(TrimLeft(Tail(rest))))
    IN  semicolon(TrimLeft(v))

\* checkMediaTypeDisposition: a token, or a token, a slash and a token
checkMediaTypeDisposition(text) ==
    LET subtype(tk) ==
            IF tk.token = <<>> THEN ErrExpectedToken
            ELSE IF tk.rest # <<>> THEN ErrUnexpectedContent
            ELSE ""
        type(tk) ==
            IF tk.token = <<>> THEN ErrNoMediaType
            ELSE IF tk.rest = <<>> THEN ""
            ELSE IF ~ HasPrefix(tk.rest, <<"/">>) THEN ErrExpectedSlash
            ELSE subtype(consumeToken(Tail(tk.rest)))
    IN  type(consumeToken(text))

\* the loop of ParseMediaType over the parameters: every name with its value;
\* a name given twice with different values and text that is no parameter
\* are errors, a last ";" is not
RECURSIVE consumeParams(_, _)
consumeParams(v, all) ==
    LET put(p) ==
            IF p.param \in DOMAIN all /\ all[p.param] # p.value
            THEN [all |-> all, err |-> ErrDuplicateParameter]
            ELSE consumeParams(p.rest, [k \in DOMAIN all \cup {p.param} |->
                                           IF k = p.param THEN p.value ELSE all[k]])
        next(p) ==
            IF p.param # <<>> THEN put(p)
            ELSE IF TrimSpace(p.rest) = <<";">> THEN [all |-> all, err |-> ""]
            ELSE [all |-> all, err |-> ErrInvalidMediaParameter]
        loop(rest) ==
            IF rest = <<>> THEN [all |-> all, err |-> ""] ELSE next(consumeMediaParam(rest))
    IN  loop(TrimLeft(v))

\* percentHexUnescape: %XX is a byte; a bad escape gives no text
RECURSIVE unescapeHex(_)
unescapeHex(text) ==
    IF text = <<>>
    THEN [ok |-> TRUE, text |-> <<>>]
    ELSE IF Head(text) = "%"
    THEN IF Len(text) >= 3 /\ Unhex(text[2]) >= 0 /\ Unhex(text[3]) >= 0
         THEN LET rest == unescapeHex(SubSeq(text, 4, Len(text)))
              IN  [ok |-> rest.ok,
                   text |-> << CharOf(16 * Unhex(text[2]) + Unhex(text[3])) >> \o rest.text]
         ELSE [ok |-> FALSE, text |-> <<>>]
    ELSE LET rest == unescapeHex(Tail(text))
         IN  [ok |-> rest.ok, text |-> << Head(text) >> \o rest.text]
percentHexUnescape(text) ==
    LET result(u) == IF u.ok THEN u ELSE [ok |-> FALSE, text |-> <<>>]
    IN  result(unescapeHex(text))

\* decode2231Enc: charset'language'text with the charset us-ascii or utf-8
decodeCharset(charset, lang) ==
    IF ~ charset.found \/ ~ lang.found THEN [ok |-> FALSE, text |-> <<>>]
    ELSE IF ToLower(charset.before) \notin { T_usascii, T_utf8 }
    THEN [ok |-> FALSE, text |-> <<>>]
    ELSE percentHexUnescape(lang.after)
decode2231Enc(v) == decodeCharset(Cut(v, "'"), Cut(Cut(v, "'").after, "'"))

\* fmt.Sprintf("%d", n)
RECURSIVE Itoa(_)
Itoa(n) == IF n < 10 THEN << Digits[n + 1] >> ELSE Itoa(n \div 10) \o << Digits[(n % 10) + 1] >>

\* the pieces key*0, key*1, ... (key*n* percent-encoded) put together
RECURSIVE continuation(_, _, _, _, _)
continuation(all, key, n, buf, valid) ==
    LET simplePart == key \o <<"*">> \o Itoa(n)
        piece(dec) == IF dec.ok THEN dec.text ELSE <<>>
    IN  IF simplePart \in DOMAIN all
        THEN continuation(all, key, n + 1, buf \o all[simplePart], TRUE)
        ELSE IF simplePart \o <<"*">> \notin DOMAIN all
        THEN [set |-> valid, text |-> buf]
        ELSE IF n = 0
        THEN continuation(all, key, n + 1,
                          buf \o piece(decode2231Enc(all[simplePart \o <<"*">>])), TRUE)
        ELSE continuation(all, key, n + 1,
                          buf \o piece(percentHexUnescape(all[simplePart \o <<"*">>])), TRUE)

\* what the pieces of one starred name stitch to
stitchPiece(all, key) ==
    LET single(dec) == [set |-> dec.ok, text |-> dec.text]
    IN  IF key \o <<"*">> \in DOMAIN all
        THEN single(decode2231Enc(all[key \o <<"*">>]))
        ELSE continuation(all, key, 0, <<>>, FALSE)

\* the params map: the plain names, and for the names with a "*" what their
\* pieces stitch to
stitchedParams(all, starred, pieces) ==
    LET set == { key \in DOMAIN pieces : pieces[key].set }
    IN  [k \in ((DOMAIN all) \ starred) \cup set |->
            IF k \in set THEN pieces[k].text ELSE all[k]]
stitchStarred(all, starred) ==
    stitchedParams(all, starred,
                   [key \in { Cut(k, "*").before : k \in starred } |-> stitchPiece(all, key)])
stitchParams(all) == stitchStarred(all, { k \in DOMAIN all : IsIn(k, "*") })

\* mime.ParseMediaType(v): the type in lower case, the parameters, the error.
\* A text that is no parameter leaves the type with the error; the other
\* errors leave nothing.
mediaTypeFailed(err) == [mediatype |-> <<>>, params |-> <<>>, err |-> err]
mediaTypeParams(mediatype, err, loop) ==
    IF err # "" THEN mediaTypeFailed(err)
    ELSE IF loop.err = ErrInvalidMediaParameter
    THEN [mediatype |-> mediatype, params |-> <<>>, err |-> loop.err]
    ELSE IF loop.err # "" THEN mediaTypeFailed(loop.err)
    ELSE [mediatype |-> mediatype, params |-> stitchParams(loop.all), err |-> ""]
mediaTypeChecked(v, base, mediatype) ==
    mediaTypeParams(mediatype, checkMediaTypeDisposition(mediatype),
                    consumeParams(SubSeq(v, Len(base) + 1, Len(v)), <<>>))
mediaTypeOf(v, base) == mediaTypeChecked(v, base, TrimSpace(ToLower(base)))
ParseMediaType(v) == mediaTypeOf(v, Cut(v, ";").before)

\* parsePostForm of net/http: the body of a URL-encoded request read and
\* parsed; the error is the first of the media type's, the read's, the parse's
postFormParsed(mt, rd, vs) == [vs |-> vs.m, err |-> mt.err # "" \/ vs.err, body |-> rd.body]
postFormOf(r, mt, rd) ==
    IF mt.mediatype # CT_urlencoded THEN [vs |-> <<>>, err |-> mt.err # "", body |-> r.Body]
    ELSE IF rd.err THEN [vs |-> <<>>, err |-> TRUE, body |-> rd.body]
    ELSE postFormParsed(mt, rd, ParseQuery(rd.data))
parsePostForm(r) ==
    postFormOf(r, ParseMediaType(IF r.ContentType = <<>> THEN CT_octet ELSE r.ContentType),
               ReadAll(r.Body))

\* Request.ParseForm for a POST: the post form and the URL's query are parsed
\* once; PostForm keeps what the body gave.  The error is the post form's,
\* or else the query's.
formParsed(r, post, query) ==
    [ r |-> [r EXCEPT !.PostForm = Values(post.vs), !.Body = post.body],
      err |-> post.err \/ query.err ]
ParseForm(r) ==
    IF ~r.PostForm.nil
    THEN [r |-> r, err |-> FALSE]
    ELSE formParsed(r, parsePostForm(r), ParseQuery(r.RawQuery))

\* multipart.Reader.ReadForm: the fields of the parts between the delimiter
\* lines of the boundary, up to the closing delimiter
RECURSIVE ReadForm(_, _)
ReadForm(data, boundary) ==
    LET n == Len(boundary)
        delim == <<"-","-">> \o boundary
        after == SubSeq(data, n + 3, Len(data))
        rest == ReadForm(SubSeq(after, Len(P_formdata) + 3, Len(after)), boundary)
    IN  IF ~HasPrefix(data, delim) THEN [m |-> <<>>, err |-> TRUE]
        ELSE IF after = <<"-","-">> THEN [m |-> <<>>, err |-> FALSE]
        ELSE IF ~HasPrefix(after, P_formdata) \/ Len(after) < Len(P_formdata) + 2
        THEN [m |-> <<>>, err |-> TRUE]
        ELSE [rest EXCEPT !.m = AddFirst(rest.m, << after[Len(P_formdata) + 1] >>,
                                         << after[Len(P_formdata) + 2] >>)]

\* Request.multipartReader: the header must be multipart/form-data with a
\* boundary parameter
multipartBoundary(r, mt) ==
    IF \/ r.ContentType = <<>>
       \/ mt.err # ""
       \/ mt.mediatype # CT_multipart
       \/ T_boundary \notin DOMAIN mt.params
    THEN [err |-> TRUE, boundary |-> <<>>]
    ELSE [err |-> FALSE, boundary |-> mt.params[T_boundary]]
multipartReader(r) == multipartBoundary(r, ParseMediaType(r.ContentType))

\* Request.ParseMultipartForm(maxMemory): ParseForm first, then the parts of a
\* multipart/form-data body, read with the boundary parameter of the header,
\* into PostForm
multipartParts(pf, rd, form) ==
    LET merged(a, b) ==
            [k \in DOMAIN a \cup DOMAIN b |->
                (IF k \in DOMAIN a THEN a[k] ELSE <<>>) \o (IF k \in DOMAIN b THEN b[k] ELSE <<>>)]
    IN  IF rd.err \/ form.err
        THEN [r |-> [pf.r EXCEPT !.Body = rd.body], err |-> TRUE]
        ELSE [r |-> [pf.r EXCEPT !.Body = rd.body,
                                 !.PostForm = Values(merged(pf.r.PostForm.m, form.m))],
              err |-> pf.err]
multipartRead(pf, rd, boundary) == multipartParts(pf, rd, ReadForm(rd.data, boundary))
multipartForm(pf, mr) ==
    IF mr.err THEN [r |-> pf.r, err |-> TRUE]
    ELSE multipartRead(pf, ReadAll(pf.r.Body), mr.boundary)
ParseMultipartForm(r) == multipartForm(ParseForm(r), multipartReader(r))

\* the default branch of getParams: the body read and put back
rawBody(r, rd) ==
    IF ~rd.err
    THEN [query |-> rd.data, r |-> [r EXCEPT !.Body = [data |-> rd.data, err |-> FALSE]]]
    ELSE [query |-> r.RawQuery, r |-> [r EXCEPT !.Body = rd.body]]

\* a getParams whose form branches give the empty text when parsing fails
getParamsEmptyOnFailure(ctx) ==
    LET parsed(pf) == IF ~pf.err THEN [query |-> MarshalValues(pf.r.PostForm.m), r |-> pf.r]
                      ELSE [query |-> <<>>, r |-> pf.r]
        switch(r, contentType) ==
            IF r.Method # "POST" THEN [query |-> r.RawQuery, r |-> r]
            ELSE IF contentType = CT_urlencoded THEN parsed(ParseForm(r))
            ELSE IF contentType \in {CT_formdata, CT_multipart} THEN parsed(ParseMultipartForm(r))
            ELSE rawBody(r, ReadAll(r.Body))
    IN  switch(ctx.Request, SplitFirst(ctx.Request.ContentType))

\* a form branch of getParams: the post form as JSON, or on failure the raw
\* query of the last line
formOrRawQuery(pf) ==
    IF ~pf.err THEN [query |-> MarshalValues(pf.r.PostForm.m), r |-> pf.r]
    ELSE [query |-> pf.r.RawQuery, r |-> pf.r]
switchContentType(r, contentType) ==
    IF r.Method # "POST" THEN [query |-> r.RawQuery, r |-> r]
    ELSE IF contentType = CT_urlencoded THEN formOrRawQuery(ParseForm(r))
    ELSE IF contentType \in {CT_formdata, CT_multipart}
    THEN formOrRawQuery(ParseMultipartForm(r))
    ELSE rawBody(r, ReadAll(r.Body))

\* getParams: the text of the query field, and the request as it leaves it
getParams(ctx) == switchContentType(ctx.Request, SplitFirst(ctx.Request.ContentType))

(***************************************************************************)
(* GinLogger: GetFields after c.Next() has returned, then Default.Info.    *)
(***************************************************************************)
\* Context.Errors.ByType(gin.ErrorTypePrivate)
PrivateErrors(ctx) == SelectSeq(ctx.Errors, LAMBDA e : e.Type = "private")

\* a GetFields that reports the status the writer starts with
GetFieldsEarlyStatus(ctx, h) ==
    LET fields(std) ==
            IF ctx.result # NoKey
            THEN [ traceId |-> h[ctx.result].TraceID,
                   status |-> std.status, method |-> std.method,
                   path |-> std.path, query |-> std.query, errors |-> std.errors ]
            ELSE std
    IN  fields([ status |-> defaultStatus,
                 method |-> ctx.Request.Method,
                 path   |-> ctx.Request.Path,
                 query  |-> getParams(ctx).query,
                 errors |-> PrivateErrors(ctx) ])

\* GetFields, the part after c.Next()
GetFields(ctx, h) ==
    LET fields(std) ==
            IF ctx.result # NoKey
            THEN [ traceId |-> h[ctx.result].TraceID,
                   status |-> std.status, method |-> std.method,
                   path |-> std.path, query |-> std.query, errors |-> std.errors ]
            ELSE std
    IN  fields([ status |-> ctx.Writer.status,
                 method |-> ctx.Request.Method,
                 path   |-> ctx.Request.Path,
                 query  |-> getParams(ctx).query,
                 errors |-> PrivateErrors(ctx) ])

\* a GinLogger that logs through the logger Default held when the process started
GinLoggerCaptured(w, log) ==
    [w EXCEPT !.out = GLogger_Info(New(T_debug, DefaultLogFile), w.out,
                                   <<TagDefault, FullPath(w.c)>>, GetFields(w.c, w.heap)),
              !.c = [w.c EXCEPT !.Request = getParams(w.c).r]]

\* the handler of GinLogger, once GetFields' c.Next() has returned
GinLogger(w, log) ==
    [w EXCEPT !.out = GLogger_Info(log, w.out, <<TagDefault, FullPath(w.c)>>,
                                   GetFields(w.c, w.heap)),
              !.c = [w.c EXCEPT !.Request = getParams(w.c).r]]

\* Context.Next: the step of its loop after a handler has returned
NextIndex(ctx) == [ctx EXCEPT !.index = @ + 1]

(***************************************************************************)
(* The worker serving one request at a time.                               *)
(***************************************************************************)
NoAct(op) ==
    [ op |-> op, at |-> cur, written |-> Written(c), sentBefore |-> c.Writer.sent,
      nbody |-> Len(c.Writer.body),
      res |-> NoKey, data |-> NilData, msg |-> "", code |-> GoInt(0, 0), err |-> NilErr,
      panic |-> NoPanic ]

\* Engine.ServeHTTP up to the first route handler: a fresh Context, then
\* GinLogger -> GetFields -> c.Next() -> GinRecovery -> c.Next() -> handler
ServeHTTP(r) ==
    /\ Idle
    /\ c' = [NewContext(r) EXCEPT !.index = 2]
    /\ pc' = "handler"
    /\ cur' = 2
    /\ ran' = << 2 >>
    /\ nops' = 0
    /\ panicVal' = NoPanic
    /\ recovered' = 0
    /\ uuid' = 0
    /\ acts' = <<>>
    /\ heap' = << heap[DefaultReturn] >>
    /\ SetOut(EmptyOut)
    /\ traces' = <<>>
    /\ arrived' = r
    /\ UNCHANGED << Default, lastCfg, stack, lvlVars, gormLogger, lastMode, raceVars >>

\* the route handler calls response.OK(c, data, msg)
OK(data, msg) ==
    /\ pc = "handler"
    /\ nops < MaxOps
    /\ SetWorld(OKCall(World, Default, data, msg))
    /\ acts' = Append(acts, [NoAct("OK") EXCEPT !.res = c'.result, !.data = data, !.msg = msg])
    /\ nops' = nops + 1
    /\ UNCHANGED << Default, lastCfg, stack, pc, cur, ran, panicVal, recovered, lvlVars, dbVars, raceVars, arrived >>

\* the route handler calls response.Error(c, code, err, msg)
Error(code, err, msg) ==
    /\ pc = "handler"
    /\ nops < MaxOps
    /\ SetWorld(ErrorCall(World, Default, code, err, msg))
    /\ acts' = Append(acts, [NoAct("Error") EXCEPT !.res = c'.result, !.code = code,
                                                   !.err = err, !.msg = msg])
    /\ nops' = nops + 1
    /\ UNCHANGED << Default, lastCfg, stack, pc, cur, ran, panicVal, recovered, lvlVars, dbVars, raceVars, arrived >>

\* the route handler of the repository's test: c.JSON(204, nil)
HandlerJSON ==
    /\ pc = "handler"
    /\ nops < MaxOps
    /\ c' = JSON(c, StatusNoContent, NilData)
    /\ acts' = Append(acts, NoAct("JSON"))
    /\ nops' = nops + 1
    /\ UNCHANGED << Default, lastCfg, logVars, heap, stack, pc, cur, ran, panicVal,
                    recovered, uuid, lvlVars, dbVars, raceVars, arrived >>

\* the route handler reads the request body to its end, as c.GetRawData() and
\* the JSON binding do: io.ReadAll(c.Request.Body)
HandlerReadBody ==
    /\ pc = "handler"
    /\ nops < MaxOps
    /\ c' = [c EXCEPT !.Request.Body = ReadAll(c.Request.Body).body]
    /\ acts' = Append(acts, NoAct("ReadBody"))
    /\ nops' = nops + 1
    /\ UNCHANGED << Default, lastCfg, logVars, heap, stack, pc, cur, ran, panicVal,
                    recovered, uuid, lvlVars, dbVars, raceVars, arrived >>

\* the route handler panics with value v: the stack unwinds to GinRecovery's defer
HandlerPanic(v) ==
    /\ pc = "handler"
    /\ panicVal' = v
    /\ pc' = "recover"
    /\ acts' = Append(acts, [NoAct("panic") EXCEPT !.panic = v])
    /\ UNCHANGED << Default, lastCfg, logVars, heap, stack, c, cur, ran, nops,
                    recovered, uuid, lvlVars, dbVars, raceVars, arrived >>

\* GinRecovery's deferred function recovers the panic; GinRecovery then returns
\* into the loop of the c.Next() that GetFields called
Recover ==
    /\ pc = "recover"
    /\ LET w == GinRecovery(World, Default, stack, panicVal)
       IN  SetWorld([w EXCEPT !.c = NextIndex(w.c)])
    /\ recovered' = recovered + 1
    /\ panicVal' = NoPanic
    /\ pc' = "fields"
    /\ UNCHANGED << Default, lastCfg, stack, cur, ran, nops, acts, lvlVars, dbVars, raceVars, arrived >>

\* the route handler returns and the chain goes on to the next route handler
HandlerReturnNext ==
    /\ pc = "handler"
    /\ NextIndex(c).index < ChainLen
    /\ c' = NextIndex(c)
    /\ cur' = c'.index
    /\ ran' = Append(ran, c'.index)
    /\ UNCHANGED << Default, lastCfg, logVars, heap, stack, pc, nops, panicVal,
                    recovered, uuid, acts, lvlVars, dbVars, raceVars, arrived >>

\* the route handler returns and the chain is over or aborted: GinRecovery's
\* c.Next() returns, its deferred function runs with no panic, GinRecovery returns
HandlerReturnLast ==
    /\ pc = "handler"
    /\ NextIndex(c).index >= ChainLen
    /\ LET w0 == [World EXCEPT !.c = NextIndex(c)]
           w  == GinRecovery(w0, Default, stack, NoPanic)
       IN  SetWorld([w EXCEPT !.c = NextIndex(w.c)])
    /\ pc' = "fields"
    /\ UNCHANGED << Default, lastCfg, stack, cur, ran, nops, panicVal, recovered,
                    acts, lvlVars, dbVars, raceVars, arrived >>

\* GetFields builds the fields, GinLogger logs the [Receive] line and returns;
\* the engine then sends the header if no handler did
Receive ==
    /\ pc = "fields"
    /\ LET w == GinLogger(World, Default)
       IN  SetWorld([w EXCEPT !.c = WriteHeaderNow(NextIndex(w.c))])
    /\ pc' = "done"
    /\ UNCHANGED << Default, lastCfg, stack, cur, ran, nops, panicVal, recovered,
                    acts, lvlVars, dbVars, raceVars, arrived >>

(***************************************************************************)
(* The GORM adapter: middleware.GormLogger and GetGormConfig.              *)
(***************************************************************************)
TAG == "[GORM]"

\* no adapter constructed yet
NilGormLogger == [nil |-> TRUE, SlowThreshold |-> 0]
\* &GormLogger{SlowThreshold: d}
NewGormLogger(d) == [nil |-> FALSE, SlowThreshold |-> d]

\* time.Duration values, in nanoseconds
Millisecond == 1000000
Second == 1000 * Millisecond
\* slow-query thresholds the application constructs its adapter with
Thresholds == { 0, 200 * Millisecond }
\* what time.Since(begin) returns in a Trace call
Elapseds == { 200 * Millisecond, 1500 * Millisecond }

\* Duration.Seconds(): whole seconds plus the nanoseconds over 1e9
Seconds(d) == [sec |-> d \div Second, nsec |-> d % Second]

\* an error value: its text and the errors its Unwrap chain holds, itself included
ErrNil == [nil |-> TRUE, text |-> "", chain |-> {}]
ErrRecordNotFound ==
    [nil |-> FALSE, text |-> "record not found", chain |-> {"gorm.ErrRecordNotFound"}]
\* fmt.Errorf("first: %w", gorm.ErrRecordNotFound)
ErrWrappedNotFound ==
    [nil |-> FALSE, text |-> "first: record not found",
     chain |-> {"*fmt.wrapError", "gorm.ErrRecordNotFound"}]
\* errors.New("record not found"): the text of the sentinel, another value
ErrSameText == [nil |-> FALSE, text |-> "record not found", chain |-> {"*errors.errorString"}]
ErrNoTable == [nil |-> FALSE, text |-> "no such table: products", chain |-> {"sqlite3.Error"}]
TraceErrs == { ErrNil, ErrRecordNotFound, ErrWrappedNotFound, ErrSameText, ErrNoTable }

\* errors.Is(err, target)
ErrorsIs(err, target) == target \in err.chain

\* what fc() returns: the statement and the rows affected
FcResults ==
    { [sql |-> "SELECT * FROM products WHERE code = ?", rows |-> 0],
      [sql |-> "UPDATE products SET price = ?", rows |-> 1] }

\* gorm's logger.LogLevel
GormSilent == 1
GormError == 2
GormWarn == 3
GormInfo == 4
\* the values LogMode is called with: the four levels, and 0 and 5 outside them
GormLevels == 0..5

\* the level text LogMode hands to Default.SetLogLevel
LogModeText(level) ==
    CASE level = GormSilent -> T_fatal
      [] level = GormInfo   -> T_debug
      [] level = GormWarn   -> T_warn
      [] level = GormError  -> T_error
      [] OTHER              -> T_debug

\* a LogMode that leaves the default logger alone
LogModeOwnLevel(log, level) == log

\* GormLogger.LogMode(level) as its effect on the default logger
LogMode(log, level) == SetLogLevel(log, LogModeText(level))

\* a Trace that tests slowness before it looks at the error
TraceSlowFirst(l, log, out, elapsed, fc, err) ==
    LET logFields == [sql |-> fc.sql, time |-> Seconds(elapsed), rows |-> fc.rows]
    IN  IF l.SlowThreshold # 0 /\ elapsed > l.SlowThreshold
        THEN GLogger_Warn(log, out, <<TAG, " ", "Slow Log">>, logFields)
        ELSE IF ~ err.nil
             THEN IF ErrorsIs(err, "gorm.ErrRecordNotFound")
                  THEN GLogger_Warn(log, out, <<TAG, " ", "ErrRecordNotFound">>, logFields)
                  ELSE GLogger_Error(log, out, <<TAG, " ", "Error">>,
                                     [sql |-> logFields.sql, time |-> logFields.time,
                                      rows |-> logFields.rows, error |-> err.text])
             ELSE GLogger_Debug(log, out, <<TAG, " ", "Query">>, logFields)

\* a Trace that compares the elapsed time with the threshold even when it is zero
TraceNoZeroTest(l, log, out, elapsed, fc, err) ==
    LET logFields == [sql |-> fc.sql, time |-> Seconds(elapsed), rows |-> fc.rows]
    IN  IF ~ err.nil
        THEN IF ErrorsIs(err, "gorm.ErrRecordNotFound")
             THEN GLogger_Warn(log, out, <<TAG, " ", "ErrRecordNotFound">>, logFields)
             ELSE GLogger_Error(log, out, <<TAG, " ", "Error">>,
                                [sql |-> logFields.sql, time |-> logFields.time,
                                 rows |-> logFields.rows, error |-> err.text])
        ELSE IF elapsed > l.SlowThreshold
             THEN GLogger_Warn(log, out, <<TAG, " ", "Slow Log">>, logFields)
             ELSE GLogger_Debug(log, out, <<TAG, " ", "Query">>, logFields)

\* GormLogger.Trace(ctx, begin, fc, err) on adapter l, with elapsed = time.Since(begin)
Trace(l, log, out, elapsed, fc, err) ==
    LET logFields == [sql |-> fc.sql, time |-> Seconds(elapsed), rows |-> fc.rows]
    IN  IF ~ err.nil
        THEN IF ErrorsIs(err, "gorm.ErrRecordNotFound")
             THEN GLogger_Warn(log, out, <<TAG, " ", "ErrRecordNotFound">>, logFields)
             ELSE GLogger_Error(log, out, <<TAG, " ", "Error">>,
                                [sql |-> logFields.sql, time |-> logFields.time,
                                 rows |-> logFields.rows, error |-> err.text])
        ELSE IF l.SlowThreshold # 0 /\ elapsed > l.SlowThreshold
             THEN GLogger_Warn(log, out, <<TAG, " ", "Slow Log">>, logFields)
             ELSE GLogger_Debug(log, out, <<TAG, " ", "Query">>, logFields)

\* an argument of a format call: its Go type and what %v prints for it
FmtArg(type, text) == [type |-> type, text |-> text]

\* fmt.Sprintf(format, args...), the format given as its pieces: literal text
\* and the verb %v.  A verb without an argument prints %!v(MISSING); arguments
\* no verb used are listed after the text as %!(EXTRA type=value, ...).
RECURSIVE Sprintf(_, _)
Sprintf(format, args) ==
    IF format = <<>>
    THEN IF args = <<>>
         THEN <<>>
         ELSE <<"%!(EXTRA ">>
              \o [i \in 1..Len(args) |->
                     (IF i = 1 THEN "" ELSE ", ") \o args[i].type \o "=" \o args[i].text]
              \o <<")">>
    ELSE IF Head(format) # "%v"
         THEN <<Head(format)>> \o Sprintf(Tail(format), args)
         ELSE IF args = <<>>
              THEN <<"%!v(MISSING)">> \o Sprintf(Tail(format), args)
              ELSE <<Head(args).text>> \o Sprintf(Tail(format), Tail(args))

\* a log call without fields
NoFields == <<>>

\* GormLogger.Info / Warn / Error(ctx, str, args...): the formatted text behind
\* the tag and the level's name, logged on the default logger without fields
GormLogger_Info(log, out, str, args) ==
    GLogger_Info(log, out, <<TAG, " ", "Info: ">> \o Sprintf(str, args), NoFields)
GormLogger_Warn(log, out, str, args) ==
    GLogger_Warn(log, out, <<TAG, " ", "Warn: ">> \o Sprintf(str, args), NoFields)
GormLogger_Error(log, out, str, args) ==
    GLogger_Error(log, out, <<TAG, " ", "Error: ">> \o Sprintf(str, args), NoFields)

\* the application constructs its own adapter: &GormLogger{SlowThreshold: d}
ConstructGormLogger(d) ==
    /\ Idle
    /\ gormLogger.nil
    /\ gormLogger' = NewGormLogger(d)
    /\ UNCHANGED << Default, lastCfg, logVars, heap, stack, ctxVars, lvlVars, traces, lastMode , raceVars >>

\* gormLogger.LogMode(level)
DoLogMode(level) ==
    /\ Idle
    /\ ~ gormLogger.nil
    /\ Default' = LogMode(Default, level)
    /\ lastCfg' = [lastCfg EXCEPT !.by = "LogMode", !.level = LogModeText(level)]
    /\ lastMode' = level
    /\ UNCHANGED << logVars, heap, stack, ctxVars, lvlVars, gormLogger, traces , raceVars >>

\* middleware.GetGormConfig(level): a new zero adapter, and Default.SetLogLevel(level)
GetGormConfig(level) ==
    /\ Idle
    /\ gormLogger' = NewGormLogger(0)
    /\ Default' = SetLogLevel(Default, level)
    /\ lastCfg' = [lastCfg EXCEPT !.by = "GetGormConfig", !.level = level]
    /\ UNCHANGED << logVars, heap, stack, ctxVars, lvlVars, traces, lastMode , raceVars >>

\* gorm reports a statement: gormLogger.Trace(ctx, begin, fc, err)
DoTrace(elapsed, fc, err) ==
    /\ Idle
    /\ ~ gormLogger.nil
    /\ Len(calls) < MaxCalls
    /\ SetOut(Trace(gormLogger, Default, Out, elapsed, fc, err))
    /\ traces' = Append(traces, [l |-> gormLogger, elapsed |-> elapsed, fc |-> fc,
                                 err |-> err, at |-> Len(calls) + 1])
    /\ UNCHANGED << Default, lastCfg, heap, stack, ctxVars, lvlVars, gormLogger, lastMode , raceVars >>
\* what gorm itself reports through the adapter's Info, Warn and Error:
\* formats and their arguments
GormReports ==
    { [str  |-> <<"failed to initialize database, got error ", "%v">>,
       args |-> << FmtArg("*net.OpError", "dial tcp 127.0.0.1:3306: connect: connection refused") >>],
      [str  |-> <<"replacing callback ", "%v", " from ", "%v">>,
       args |-> << FmtArg("string", "gorm:create") >>],
      [str  |-> <<"model value required">>,
       args |-> << FmtArg("string", "products") >>] }

GormReport(out) ==
    /\ Idle
    /\ ~ gormLogger.nil
    /\ Len(calls) < MaxCalls
    /\ SetOut(out)
    /\ UNCHANGED << Default, lastCfg, heap, stack, ctxVars, lvlVars, dbVars, raceVars >>

\* gorm calls gormLogger.Info / Warn / Error(ctx, str, args...)
DoGormInfo(str, args)  == GormReport(GormLogger_Info(Default, Out, str, args))
DoGormWarn(str, args)  == GormReport(GormLogger_Warn(Default, Out, str, args))
DoGormError(str, args) == GormReport(GormLogger_Error(Default, Out, str, args))

(***************************************************************************)
(* Workers that share a logger without a lock.  SetLogLevel is the         *)
(* sequence of its memory operations on the GLogger: the store of the      *)
(* string LogLevel (two words), the read back, which the compiled code     *)
(* serves from the value just stored, and the store of the pointer         *)
(* ZapLogger.  A log call reads the pointer ZapLogger and then writes      *)
(* through the zap.Logger it read.  Racing stores of the two words of the  *)
(* string may interleave in any order and leave the field torn.            *)
(***************************************************************************)
Workers == { "w1", "w2" }

\* the words of a string holding text: pointer to its bytes, and its length
Words(text) == [ptr |-> text, len |-> Len(text)]
\* the string two words denote: len bytes from ptr, bytes past the text unknown
TextOf(words) ==
    IF words.len <= Len(words.ptr)
    THEN SubSeq(words.ptr, 1, words.len)
    ELSE words.ptr \o [i \in 1..(words.len - Len(words.ptr)) |-> "?"]

\* level texts the workers pass to SetLogLevel, and to New when replacing Default
RaceLevels == { T_fatal, T_Warn }
RaceNewLevels == { T_Warn }
RaceMsg == << "m1" >>

NoObj == [ptr |-> <<>>, len |-> 0, LogPath |-> ""]
IdleWorker ==
    [ pc |-> "idle", level |-> <<>>, todo |-> {}, logLevel |-> 0,
      logPath |-> "", zl |-> <<>>, msgLevel |-> 0, pending |-> FALSE, text |-> <<>>,
      stale |-> FALSE, obj |-> NoObj ]

\* a worker is inside SetLogLevel on the logger Default points to
InSetLogLevel(v) == wk[v].pc \in {"store", "read", "build"} /\ ~ wk[v].stale
\* ... and has stored the level text but not installed the writer
StoredNotInstalled(v) == wk[v].pc \in {"read", "build"} /\ ~ wk[v].stale

\* a SetLogLevel that builds the core and does not install it
InstallNothing(log, logPath, logLevel) == log
\* the last step of SetLogLevel: log.ZapLogger = zap.New(core, ...)
InstallWriter(log, logPath, logLevel) == [log EXCEPT !.ZapLogger = NewTee(logPath, logLevel)]

\* worker w calls Default.SetLogLevel(level): the receiver is loaded
BeginSetLogLevel(w, level) ==
    /\ pc = "idle"
    /\ wk[w].pc = "idle"
    /\ wk' = [wk EXCEPT ![w] = [IdleWorker EXCEPT !.pc = "store", !.level = level,
                                                  !.todo = {"ptr", "len"}]]
    /\ overlapped' = (overlapped \/ \E v \in Workers \ {w} : InSetLogLevel(v))
    /\ nrace.sets + nrace.news + nrace.logs < MaxRaceOps
    /\ nrace' = [nrace EXCEPT !.sets = @ + 1]
    /\ UNCHANGED << Default, lastCfg, logVars, heap, stack, ctxVars, lvlVars, dbVars,
                    levelWords, raceHist >>

\* log.LogLevel = level, one word x of the string at a time
StoreWord(w, x) ==
    /\ wk[w].pc = "store"
    /\ x \in wk[w].todo
    /\ LET new  == Words(wk[w].level)[x]
           rest == wk[w].todo \ {x}
           w1   == [wk[w] EXCEPT !.todo = rest,
                                 !.pc = IF rest = {} THEN "read" ELSE "store"]
       IN  IF wk[w].stale
           THEN /\ wk' = [wk EXCEPT ![w] = [w1 EXCEPT !.obj[x] = new]]
                /\ UNCHANGED << Default, levelWords >>
           ELSE /\ wk' = [wk EXCEPT ![w] = w1]
                /\ levelWords' = [levelWords EXCEPT ![x] = new]
                /\ Default' = [Default EXCEPT !.LogLevel = TextOf(levelWords')]
    /\ UNCHANGED << lastCfg, logVars, heap, stack, ctxVars, lvlVars, dbVars,
                    overlapped, raceHist, nrace >>

\* logLevel := GetLogLevel(log.LogLevel); logPath := log.LogPath: the load of
\* log.LogLevel follows the store of the line before with nothing between, and
\* the compiled code hands GetLogLevel the value it has just stored, whatever
\* the other worker has written to the field meanwhile; log.LogPath is read
\* from the logger
ReadBack(w) ==
    /\ wk[w].pc = "read"
    /\ wk' = [wk EXCEPT ![w] =
                 [@ EXCEPT !.todo = {}, !.pc = "build",
                           !.logLevel = GetLogLevel(wk[w].level),
                           !.logPath = IF wk[w].stale THEN wk[w].obj.LogPath
                                       ELSE Default.LogPath]]
    /\ UNCHANGED << Default, lastCfg, logVars, heap, stack, ctxVars, lvlVars, dbVars,
                    levelWords, overlapped, raceHist, nrace >>

\* the tee is built and log.ZapLogger is stored; SetLogLevel returns
Install(w) ==
    /\ wk[w].pc = "build"
    /\ IF wk[w].stale
       THEN UNCHANGED << Default, lastCfg >>
       ELSE /\ Default' = InstallWriter(Default, wk[w].logPath, wk[w].logLevel)
            /\ lastCfg' = [lastCfg EXCEPT !.by = "SetLogLevel", !.level = wk[w].level]
    /\ wk' = [wk EXCEPT ![w] = IdleWorker]
    /\ UNCHANGED << logVars, heap, stack, ctxVars, lvlVars, dbVars,
                    levelWords, overlapped, raceHist, nrace >>

\* worker w replaces the process-wide logger: Default = New(level, logfile).
\* A SetLogLevel in flight keeps working on the logger it was called on.
RaceReplaceDefault(w, level, logfile) ==
    /\ pc = "idle"
    /\ wk[w].pc = "idle"
    /\ Default' = New(level, logfile)
    /\ levelWords' = Words(level)
    /\ lastCfg' = [by |-> "New", level |-> level, path |-> logfile]
    /\ wk' = [v \in Workers |->
                IF InSetLogLevel(v)
                THEN [wk[v] EXCEPT !.stale = TRUE,
                                   !.obj = [ptr |-> levelWords.ptr, len |-> levelWords.len,
                                            LogPath |-> Default.LogPath]]
                ELSE wk[v]]
    /\ nrace.sets + nrace.news + nrace.logs < MaxRaceOps
    /\ nrace' = [nrace EXCEPT !.news = @ + 1]
    /\ UNCHANGED << logVars, heap, stack, ctxVars, lvlVars, dbVars, overlapped, raceHist >>

\* worker w calls Default.Info / Default.Error: log.ZapLogger is read
BeginLog(w, level) ==
    /\ pc = "idle"
    /\ wk[w].pc = "idle"
    /\ nrace.sets + nrace.news + nrace.logs < MaxRaceOps
    /\ nrace' = [nrace EXCEPT !.logs = @ + 1]
    /\ wk' = [wk EXCEPT ![w] = [IdleWorker EXCEPT
                 !.pc = "log", !.zl = Default.ZapLogger, !.msgLevel = level,
                 !.text = Default.LogLevel,
                 !.pending = \E v \in Workers \ {w} : StoredNotInstalled(v)]]
    /\ UNCHANGED << Default, lastCfg, logVars, heap, stack, ctxVars, lvlVars, dbVars,
                    levelWords, overlapped, raceHist >>

\* the entry of the log call worker w is making
RaceEntry(w) == [level |-> wk[w].msgLevel, msg |-> RaceMsg, fields |-> AppFields]

\* the zap.Logger that was read checks the entry against its cores and has the
\* first core that takes it, the console, write it; the cores write one after
\* the other, each under the lock of its own sink, so that the other worker's
\* call can run before the file is written
WriteLog(w) ==
    /\ wk[w].pc = "log"
    /\ SetOut(CoreWrite([Out EXCEPT !.calls = Append(@, RaceEntry(w))],
                        wk[w].zl[1], RaceEntry(w)))
    /\ raceHist' = Append(raceHist, [worker |-> w, level |-> wk[w].msgLevel,
                                      pending |-> wk[w].pending, text |-> wk[w].text,
                                      threshold |-> wk[w].zl[1].level])
    /\ wk' = [wk EXCEPT ![w] = IF Enabled(wk[w].zl[2], wk[w].msgLevel)
                               THEN [@ EXCEPT !.pc = "file"]
                               ELSE IdleWorker]
    /\ UNCHANGED << Default, lastCfg, heap, stack, ctxVars, lvlVars, dbVars,
                    levelWords, overlapped, nrace >>

\* the second core, the file, writes the entry and the log call returns
WriteFile(w) ==
    /\ wk[w].pc = "file"
    /\ SetOut(CoreWrite(Out, wk[w].zl[2], RaceEntry(w)))
    /\ wk' = [wk EXCEPT ![w] = IdleWorker]
    /\ UNCHANGED << Default, lastCfg, heap, stack, ctxVars, lvlVars, dbVars,
                    levelWords, overlapped, raceHist, nrace >>

(***************************************************************************)
(* The level resolver run on every letter-casing of a set of words.        *)
(***************************************************************************)
LevelNames == { T_debug, T_info, T_warn, T_error, T_dpanic, T_panic, T_fatal }
OtherWords ==
    { <<>>, T_invalid, <<"t","r","a","c","e">>, <<"i","n","f">>, <<"i","n","f","o","s">>,
      <<"d","e","b","u","g"," ">>, <<"o","f","f">>, <<"w","a","r","n","i","n","g">>,
      <<"P","A","N","U+0130","C">>, <<"D","P","A","N","U+0130","C">>,
      <<"U+0130","n","f","o">>, <<"p","a","n","U+0131","c">>,
      <<"U+212A">>, <<"U+00C9","r","r","o","r">> }
ResolverInputs == UNION { Casings(t) : t \in LevelNames \cup OtherWords }

Resolve ==
    /\ ~ levelOut.done
    /\ levelOut' = [done |-> TRUE, level |-> GetLogLevel(levelIn)]
    /\ UNCHANGED << Default, lastCfg, logVars, heap, stack, ctxVars, levelIn, dbVars, raceVars >>

(***************************************************************************)
(* Specifications.                                                         *)
(***************************************************************************)
\* everything but the logger and the resolver run, as the process starts
InitRest ==
    /\ calls = <<>>
    /\ console = <<>>
    /\ files = [p \in Paths |-> <<>>]
    /\ heap = << ZeroResponse >>
    /\ stack \in BOOLEAN
    /\ pc = "idle"
    /\ c = NewContext(NoRequest)
    /\ cur = 0
    /\ ran = <<>>
    /\ nops = 0
    /\ panicVal = NoPanic
    /\ recovered = 0
    /\ uuid = 0
    /\ acts = <<>>
    /\ gormLogger = NilGormLogger
    /\ traces = <<>>
    /\ lastMode = 0
    /\ wk = [w \in Workers |-> IdleWorker]
    /\ levelWords = Words(T_debug)
    /\ overlapped = FALSE
    /\ raceHist = <<>>
    /\ nrace = [sets |-> 0, news |-> 0, logs |-> 0]
    /\ arrived = NoRequest

\* var Default = New("debug", "tmp/run.log")
InitDefault ==
    /\ Default = New(T_debug, DefaultLogFile)
    /\ lastCfg = [by |-> "New", level |-> T_debug, path |-> DefaultLogFile]

NoResolverRun ==
    /\ levelIn = T_debug
    /\ levelOut = [done |-> FALSE, level |-> InfoLevel]

\* the level texts of the loggers the served application starts with
ServerLevelTexts == { T_debug, T_Info, T_error, T_fatal }

\* Serving requests: the application has set Default = New(level, logfile) at
\* start-up and registered GinLogger, GinRecovery(stack) and the route handlers.
Init ==
    /\ \E level \in ServerLevelTexts :
          /\ Default = New(level, DefaultLogFile)
          /\ lastCfg = [by |-> "New", level |-> level, path |-> DefaultLogFile]
    /\ InitRest
    /\ NoResolverRun

Next ==
    \/ \E r \in Requests : ServeHTTP(r)
    \/ \E data \in Datas, msg \in Msgs : OK(data, msg)
    \/ \E code \in Codes, err \in Errs : Error(code, err, "m1")
    \/ HandlerJSON
    \/ \E v \in PanicValues : HandlerPanic(v)
    \/ Recover
    \/ HandlerReturnNext
    \/ HandlerReturnLast
    \/ Receive

Spec == Init /\ [][Next]_vars

\* The logger facade used directly: the process-wide logger is replaced,
\* re-levelled and called.
InitLogger ==
    /\ InitDefault
    /\ InitRest
    /\ NoResolverRun

NextLogger ==
    \/ \E level \in LevelTexts, logfile \in Paths : ReplaceDefault(level, logfile)
    \/ \E level \in LevelTexts : DoSetLogLevel(level)
    \/ AppDebug(<<"m1">>)
    \/ \E msg \in AppMsgs : AppInfo(msg)
    \/ AppWarn(<<"m1">>)
    \/ AppError(<<"m1">>)
    \/ AppFatal(<<"m1">>)

SpecLogger == InitLogger /\ [][NextLogger]_vars

\* The level resolver on its own.
InitLevel ==
    /\ InitDefault
    /\ InitRest
    /\ levelIn \in ResolverInputs
    /\ levelOut = [done |-> FALSE, level |-> InfoLevel]

NextLevel == Resolve

SpecLevel == InitLevel /\ [][NextLevel]_vars

\* The GORM adapter on its own: adapters are constructed, re-level the shared
\* logger and report statements.
GormConfigLevels == { T_debug, T_error }
\* gorm.Open on a server that does not answer, as in the repository's test
OpenFailure == CHOOSE rep \in GormReports : rep.args[1].type = "*net.OpError"

InitGorm ==
    /\ InitDefault
    /\ InitRest
    /\ NoResolverRun

NextGorm ==
    \/ \E d \in Thresholds : ConstructGormLogger(d)
    \/ \E level \in GormConfigLevels : GetGormConfig(level)
    \/ \E elapsed \in Elapseds, fc \in FcResults, err \in TraceErrs : DoTrace(elapsed, fc, err)
    \/ \E rep \in GormReports : DoGormInfo(rep.str, rep.args)
    \/ \E rep \in GormReports : DoGormWarn(rep.str, rep.args)
    \/ \E rep \in GormReports : DoGormError(rep.str, rep.args)

SpecGorm == InitGorm /\ [][NextGorm]_vars

\* gorm opened with GetGormConfig, as in the README and the repository's test:
\* every adapter is the one GetGormConfig made.
InitGormConfig ==
    /\ InitDefault
    /\ InitRest
    /\ NoResolverRun

NextGormConfig ==
    \/ \E level \in GormConfigLevels : GetGormConfig(level)
    \/ \E level \in GormLevels : DoLogMode(level)
    \/ \E elapsed \in Elapseds, err \in {ErrNil, ErrRecordNotFound, ErrNoTable} :
          DoTrace(elapsed, CHOOSE fc \in FcResults : fc.rows = 1, err)
    \/ DoGormInfo(OpenFailure.str, OpenFailure.args)
    \/ DoGormWarn(OpenFailure.str, OpenFailure.args)
    \/ DoGormError(OpenFailure.str, OpenFailure.args)

SpecGormConfig == InitGormConfig /\ [][NextGormConfig]_vars

\* The shared logger under every component: the application replaces or
\* re-levels Default, directly or through the GORM adapter, between requests
\* served through GinLogger and GinRecovery and statements traced by gorm.
SharedNewLevels == { T_debug, T_Warn }
SharedModes == { GormSilent, GormError, GormWarn, GormInfo, 0 }
SharedRequest == NewRequest("GET", "/ping", "/ping", <<>>, <<>>, <<>>)
SharedPanics == { PanicString, OpError("*os.SyscallError", T_write \o T_brokenPipe) }

InitShared ==
    /\ InitDefault
    /\ InitRest
    /\ NoResolverRun

NextShared ==
    \/ \E level \in SharedNewLevels : ReplaceDefault(level, "tmp/app.log")
    \/ DoSetLogLevel(T_Info)
    \/ \E level \in SharedModes : DoLogMode(level)
    \/ \E level \in GormConfigLevels : GetGormConfig(level)
    \/ DoTrace(1500 * Millisecond, CHOOSE fc \in FcResults : fc.rows = 1, ErrNil)
    \/ DoGormInfo(OpenFailure.str, OpenFailure.args)
    \/ DoGormWarn(OpenFailure.str, OpenFailure.args)
    \/ DoGormError(OpenFailure.str, OpenFailure.args)
    \/ AppFatal(<<"m1">>)
    \/ ServeHTTP(SharedRequest)
    \/ OK("d1", "m1")
    \/ Error(GoInt(0, 401), NilErr, "m1")
    \/ \E v \in SharedPanics : HandlerPanic(v)
    \/ Recover
    \/ HandlerReturnNext
    \/ HandlerReturnLast
    \/ Receive

SpecShared == InitShared /\ [][NextShared]_vars

\* Requests with bodies, queries and content types through GinLogger: well and
\* badly formed forms, Content-Type headers with parameters (before and after
\* the boundary, quoted, in capitals, encoded, in pieces, given twice, without
\* a value), form values with the characters JSON writes as escapes, other
\* bodies, a body whose read fails, other methods.
CaptureRequests ==
    {
      NewRequest("POST", "/form", "/form", CT_urlencoded,
                 <<>>, <<"a","=","1","&","b","=","2">>),
      NewRequest("POST", "/form", "/form", CT_urlencoded,
                 <<"q","=","1">>, <<"b","=","x","+","y","&","a","=","%","2","6","&","b","=","2">>),
      NewRequest("POST", "/form", "/form", CT_urlencoded,
                 <<>>, <<"a","=","%","z","z">>),
      NewRequest("POST", "/form", "/form", CT_urlencoded,
                 <<"q","=","1">>, <<"a","=","%","z","z">>),
      NewRequest("POST", "/form", "/form", CT_urlencoded,
                 <<"q","=","%","z","z">>, <<"a","=","1">>),
      [NewRequest("POST", "/form", "/form", CT_urlencoded,
                 <<"q","=","1">>, <<"a","=","1">>)
          EXCEPT !.Body.err = TRUE],
      NewRequest("POST", "/form", "/form", CT_multipart \o <<";"," ">> \o P_boundary \o <<"B">>,
                 <<>>, <<"-","-","B","f","o","r","m","-","d","a","t","a","a","1","-","-","B","f","o","r","m","-","d","a","t","a","b","2","-","-","B","-","-">>),
      NewRequest("POST", "/form", "/form", CT_multipart \o <<";"," ">> \o P_boundary \o <<"B">>,
                 <<"q","=","1">>, <<"-","-","B","f","o","r","m","-","d","a","t","a","a","1">>),
      NewRequest("POST", "/form", "/form", CT_multipart,
                 <<"q","=","1">>, <<"-","-","B","f","o","r","m","-","d","a","t","a","a","1","-","-","B","-","-">>),
      NewRequest("POST", "/form", "/form", <<"m","u","l","t","i","p","a","r","t","/","f","o","r","m","-","d","a","t","a",";"," ","c","h","a","r","s","e","t","=","u","t","f","-","8",";"," ","b","o","u","n","d","a","r","y","=","B">>,
                 <<"q","=","1">>, <<"-","-","B","f","o","r","m","-","d","a","t","a","a","1","-","-","B","-","-">>),
      NewRequest("POST", "/form", "/form", <<"m","u","l","t","i","p","a","r","t","/","f","o","r","m","-","d","a","t","a",";"," ","b","o","u","n","d","a","r","y","=","B",";"," ","c","h","a","r","s","e","t","=","u","t","f","-","8">>,
                 <<"q","=","1">>, <<"-","-","B","f","o","r","m","-","d","a","t","a","a","1","-","-","B","-","-">>),
      NewRequest("POST", "/form", "/form", <<"m","u","l","t","i","p","a","r","t","/","f","o","r","m","-","d","a","t","a",";"," ","b","o","u","n","d","a","r","y","=","\"","B","\"">>,
                 <<"q","=","1">>, <<"-","-","B","f","o","r","m","-","d","a","t","a","a","1","-","-","B","-","-">>),
      NewRequest("POST", "/form", "/form", <<"m","u","l","t","i","p","a","r","t","/","f","o","r","m","-","d","a","t","a",";"," ","B","o","u","n","d","a","r","y","=","B",";">>,
                 <<"q","=","1">>, <<"-","-","B","f","o","r","m","-","d","a","t","a","a","1","-","-","B","-","-">>),
      NewRequest("POST", "/form", "/form", <<"m","u","l","t","i","p","a","r","t","/","f","o","r","m","-","d","a","t","a",";"," ","b","o","u","n","d","a","r","y","*","=","u","t","f","-","8","'","'","%","4","2">>,
                 <<"q","=","1">>, <<"-","-","B","f","o","r","m","-","d","a","t","a","a","1","-","-","B","-","-">>),
      NewRequest("POST", "/form", "/form", <<"m","u","l","t","i","p","a","r","t","/","f","o","r","m","-","d","a","t","a",";"," ","b","o","u","n","d","a","r","y","*","0","=","B",";"," ","b","o","u","n","d","a","r","y","*","1","=","C">>,
                 <<"q","=","1">>, <<"-","-","B","C","f","o","r","m","-","d","a","t","a","a","1","-","-","B","C","-","-">>),
      NewRequest("POST", "/form", "/form", <<"m","u","l","t","i","p","a","r","t","/","f","o","r","m","-","d","a","t","a",";"," ","b","o","u","n","d","a","r","y","=","B",";"," ","b","o","u","n","d","a","r","y","=","C">>,
                 <<"q","=","1">>, <<"-","-","B","f","o","r","m","-","d","a","t","a","a","1","-","-","B","-","-">>),
      NewRequest("POST", "/form", "/form", <<"a","p","p","l","i","c","a","t","i","o","n","/","x","-","w","w","w","-","f","o","r","m","-","u","r","l","e","n","c","o","d","e","d",";"," ","c","h","a","r","s","e","t","=","u","t","f","-","8">>,
                 <<"q","=","1">>, <<"a","=","1">>),
      NewRequest("POST", "/form", "/form", <<"a","p","p","l","i","c","a","t","i","o","n","/","x","-","w","w","w","-","f","o","r","m","-","u","r","l","e","n","c","o","d","e","d",";"," ","x">>,
                 <<"q","=","1">>, <<"a","=","1">>),
      NewRequest("POST", "/form", "/form", <<"a","p","p","l","i","c","a","t","i","o","n","/","x","-","w","w","w","-","f","o","r","m","-","u","r","l","e","n","c","o","d","e","d",";"," ","a","=","1",";"," ","a","=","2">>,
                 <<"q","=","1">>, <<"a","=","1">>),
      NewRequest("POST", "/form", "/form", <<"a","p","p","l","i","c","a","t","i","o","n","/","x","-","w","w","w","-","f","o","r","m","-","u","r","l","e","n","c","o","d","e","d">>,
                 <<"q","=","1">>, <<"%","3","C","=","%","3","E","%","5","C","&","b","=","%","0","A","%","0","D","%","0","9","&","c","=","%","2","2","%","2","6","%","7","E">>),
      NewRequest("POST", "/form", "/form", <<"m","u","l","t","i","p","a","r","t","/","f","o","r","m","-","d","a","t","a",";"," ","b","o","u","n","d","a","r","y","=","B">>,
                 <<"q","=","1">>, <<"-","-","B","f","o","r","m","-","d","a","t","a","a","<","-","-","B","f","o","r","m","-","d","a","t","a","b","\\","-","-","B","-","-">>),
      NewRequest("POST", "/form", "/form", CT_formdata,
                 <<"q","=","1">>, <<"a","=","1">>),
      NewRequest("POST", "/form", "/form", <<"A","p","p","l","i","c","a","t","i","o","n","/","X","-","W","W","W","-","F","o","r","m","-","U","r","l","e","n","c","o","d","e","d">>,
                 <<"q","=","1">>, <<"a","=","1">>),
      NewRequest("POST", "/form", "/form", CT_json,
                 <<"q","=","1">>, <<"{","\"","a","\"",":","1","}">>),
      NewRequest("POST", "/form", "/form", <<>>,
                 <<>>, <<"h","i">>),
      [NewRequest("POST", "/form", "/form", CT_json,
                 <<"q","=","1">>, <<"{","\"","a","\"",":","1","}">>)
          EXCEPT !.Body.err = TRUE],
      NewRequest("GET", "/form", "/form", <<>>,
                 <<"q","=","1","&","r","=","%","z","z">>, <<>>),
      NewRequest("GET", "/form", "/form", <<>>,
                 <<>>, <<>>),
      NewRequest("PUT", "/form", "/form", CT_urlencoded,
                 <<"q","=","1">>, <<"a","=","1">>) }

InitCapture ==
    /\ \E level \in ServerLevelTexts :
          /\ Default = New(level, DefaultLogFile)
          /\ lastCfg = [by |-> "New", level |-> level, path |-> DefaultLogFile]
    /\ InitRest
    /\ NoResolverRun

NextCapture ==
    \/ \E r \in CaptureRequests : ServeHTTP(r)
    \/ HandlerReadBody
    \/ HandlerReturnNext
    \/ HandlerReturnLast
    \/ Receive

SpecCapture == InitCapture /\ [][NextCapture]_vars

\* Two workers on the shared logger, no lock.
InitRace ==
    /\ InitDefault
    /\ InitRest
    /\ NoResolverRun

NextRace ==
    \/ \E w \in Workers, level \in RaceLevels : BeginSetLogLevel(w, level)
    \/ \E w \in Workers, x \in {"ptr", "len"} : StoreWord(w, x)
    \/ \E w \in Workers : ReadBack(w)
    \/ \E w \in Workers : Install(w)
    \/ \E w \in Workers, level \in RaceNewLevels : RaceReplaceDefault(w, level, "tmp/app.log")
    \/ \E w \in Workers, level \in {InfoLevel, ErrorLevel} : BeginLog(w, level)
    \/ \E w \in Workers : WriteLog(w)
    \/ \E w \in Workers : WriteFile(w)

SpecRace == InitRace /\ [][NextRace]_vars

(***************************************************************************)
(* Properties of the logger facade (SpecLogger).                           *)
(***************************************************************************)
\* a step in which one log call was made on Default
LogCallStep == Len(calls') = Len(calls) + 1
\* the call made in that step
TheCall == calls'[Len(calls')]

\* the call reached the console and the file of the logger, as the same entry
ReachedBoth(path) ==
    /\ console' = Append(console, TheCall)
    /\ files' = [files EXCEPT ![path] = Append(@, TheCall)]
ReachedNeither ==
    /\ console' = console
    /\ files' = files

\* C1: on a logger built by New(level, path), a Debug/Info/Warn/Error call is
\* emitted iff its severity is at or above the level resolved from the text
\* given to New; an emitted call appends the same entry to the console and to
\* the file at path, a call below the level changes neither sink.
C1_NewFilters ==
    [][ (lastCfg.by = "New" /\ LogCallStep) =>
            IF TheCall.level >= GetLogLevel(lastCfg.level)
            THEN ReachedBoth(lastCfg.path)
            ELSE ReachedNeither ]_vars

\* C1 witness: on a logger built by New, one call was dropped and a later one
\* reached the console and the logger's file, and no other file.
C1_Witness ==
    /\ lastCfg.by = "New"
    /\ Default.LogLevel = T_Warn
    /\ Len(calls) = 2
    /\ calls[1].level < WarnLevel
    /\ calls[2].level >= WarnLevel
    /\ console = << calls[2] >>
    /\ files[Default.LogPath] = << calls[2] >>
    /\ \A p \in Paths \ {Default.LogPath} : files[p] = <<>>

\* C2: once SetLogLevel(text) has returned, every later log call is filtered by
\* the level resolved from text, whatever the level was before, until the next
\* SetLogLevel (or replacement of the logger).
C2_SetLogLevelFilters ==
    [][ (lastCfg.by = "SetLogLevel" /\ LogCallStep) =>
            /\ (TheCall.level >= GetLogLevel(lastCfg.level)) <=> (console' = Append(console, TheCall))
            /\ (TheCall.level < GetLogLevel(lastCfg.level)) <=> (console' = console)
            /\ \/ files' = files /\ console' = console
               \/ files' = [files EXCEPT ![Default.LogPath] = Append(@, TheCall)]
                  /\ console' # console ]_vars

\* C2 witness: an Info call was dropped, then SetLogLevel lowered the level and
\* the same kind of call was emitted.
C2_Witness ==
    /\ lastCfg.by = "SetLogLevel"
    /\ Len(calls) = 2
    /\ calls[1].level = InfoLevel
    /\ calls[2].level = InfoLevel
    /\ calls[1].msg # calls[2].msg
    /\ console = << calls[2] >>

(***************************************************************************)
(* Properties of the level resolver (SpecLevel).                           *)
(***************************************************************************)
SixNames == { T_debug, T_info, T_warn, T_error, T_fatal, T_panic }
SevenNames == SixNames \cup { T_dpanic }

\* the level each name stands for
LevelOfName(name) ==
    CASE name = T_debug  -> DebugLevel
      [] name = T_info   -> InfoLevel
      [] name = T_warn   -> WarnLevel
      [] name = T_error  -> ErrorLevel
      [] name = T_dpanic -> DPanicLevel
      [] name = T_panic  -> PanicLevel
      [] name = T_fatal  -> FatalLevel

\* text is a letter-casing of name: letter for letter the small or the
\* capital letter of the name
IsCasingOf(text, name) ==
    /\ Len(text) = Len(name)
    /\ \A i \in 1..Len(name) : text[i] \in { name[i], UpperOf[name[i]] }
\* ... where the letters Go lower-cases to i and to k count as their capitals
SpellingsOf(letter) ==
    { letter, UpperOf[letter] }
        \cup (IF letter = "i" THEN { "U+0130" } ELSE {})
        \cup (IF letter = "k" THEN { "U+212A" } ELSE {})
IsSpellingOf(text, name) ==
    /\ Len(text) = Len(name)
    /\ \A i \in 1..Len(name) : text[i] \in SpellingsOf(name[i])

\* C3 as stated: every casing of the six names debug, info, warn, error, fatal,
\* panic resolves as the lowercase spelling does, and every other string
\* resolves to Info.
C3_SixNamesElseInfo ==
    levelOut.done =>
        levelOut.level = IF \E name \in SixNames : IsCasingOf(levelIn, name)
                         THEN LevelOfName(CHOOSE name \in SixNames : IsCasingOf(levelIn, name))
                         ELSE InfoLevel

\* C3 amended: every casing of the seven names debug, info, warn, error,
\* dpanic, panic, fatal resolves as the lowercase spelling does, U+0130 and
\* U+212A counting as capitals of i and k; every other string resolves to
\* Info; no error is reported.
C3_SevenNamesElseInfo ==
    levelOut.done =>
        /\ levelOut.level = IF \E name \in SevenNames : IsSpellingOf(levelIn, name)
                            THEN LevelOfName(CHOOSE name \in SevenNames :
                                                IsSpellingOf(levelIn, name))
                            ELSE InfoLevel
        /\ levelOut.level # ErrUnrecognized

\* C3 witness: a mixed-case spelling of a name was resolved to the name's level.
C3_Witness ==
    /\ levelOut.done
    /\ IsCasingOf(levelIn, T_error)
    /\ levelIn # T_error
    /\ levelIn # ToUpper(T_error)
    /\ levelOut.level = ErrorLevel

(***************************************************************************)
(* Properties of the envelope helpers and the middleware (Spec).           *)
(***************************************************************************)
Acts(ops) == { i \in 1..Len(acts) : acts[i].op \in ops }
EnvelopeActs == Acts({"OK", "Error"})

\* the k-th envelope call of the request made the k-th [Return] log call and
\* wrote the k-th JSON body
ReturnCalls == SelectSeq(calls, LAMBDA e : e.msg[1] = TagReturn)
JSONBodies == c.Writer.body
EnvelopeNo(i) == Cardinality({ j \in EnvelopeActs : j <= i })

\* C4: every envelope built by OK(c, data, msg) has empty status, code 200,
\* msg and info equal to msg and data equal to the supplied data, after any
\* earlier OK and Error calls; it is what OK logged at Info and wrote as the
\* body; the shared template DefaultReturn stays the zero Response.
C4_OKEnvelope ==
    /\ heap[DefaultReturn] = ZeroResponse
    /\ \A i \in Acts({"OK"}) :
          LET r == heap[acts[i].res]
              k == EnvelopeNo(i)
          IN  /\ acts[i].res # DefaultReturn
              /\ r.Status = ""
              /\ r.Code = 200
              /\ r.Msg = acts[i].msg
              /\ r.Info = acts[i].msg
              /\ r.Data = acts[i].data
              /\ ReturnCalls[k].level = InfoLevel
              /\ ReturnCalls[k].fields = ResponseGetFields(r)
              /\ Acts({"JSON"}) = {} =>
                    /\ JSONBodies[k] = Marshal(r)
                    /\ "status" \notin DOMAIN JSONBodies[k]

\* C4 witness: OK was called after Error in the same request and still built a
\* success envelope.
C4_Witness ==
    /\ Len(acts) = 2
    /\ acts[1].op = "Error"
    /\ acts[2].op = "OK"
    /\ heap[acts[1].res].Status = "error"
    /\ heap[acts[2].res].Status = ""
    /\ heap[acts[2].res].Data = "d2"

\* the int32 code of an envelope equals the Go int the caller supplied
SameCode(code32, code) == FitsInt32(code) /\ code.lo = code32

\* C5: every envelope built by Error(c, code, err, msg) has status "error",
\* code equal to the supplied code, msg equal to msg, no data, and info equal
\* to err's text when err is non-nil and to msg when err is nil.
C5_ErrorEnvelope ==
    \A i \in Acts({"Error"}) :
        LET r == heap[acts[i].res]
        IN  /\ r.Status = "error"
            /\ SameCode(r.Code, acts[i].code)
            /\ r.Msg = acts[i].msg
            /\ r.Data = NilData
            /\ r.Info = IF acts[i].err.nil THEN acts[i].msg ELSE acts[i].err.text

\* no route handler later in the chain than the one that made call i has started
NothingLaterRan(i) == \A k \in 1..Len(ran) : ran[k] <= acts[i].at

\* C6 as stated: after OK or Error the chain is aborted, no later handler runs,
\* and the status sent is 200.
C6_AbortedAndAlways200 ==
    \A i \in EnvelopeActs :
        /\ NothingLaterRan(i)
        /\ c.Writer.sent = 200

\* C6 amended: after OK or Error the chain is aborted and no later handler
\* runs; the status sent is 200 whatever the envelope's code when no header
\* had been written before the call, and a header written before keeps its status.
C6_AbortedAnd200UnlessWritten ==
    \A i \in EnvelopeActs :
        /\ NothingLaterRan(i)
        /\ pc = "handler" => IsAborted(c)
        /\ ~ acts[i].written => (c.Writer.sent = 200 /\ c.Writer.status = 200)
        /\ acts[i].written => c.Writer.sent = acts[i].sentBefore

\* C6 witness: the first route handler called Error with code 401 on a fresh
\* response, the request is over, 200 was sent and the second handler never ran.
C6_Witness ==
    /\ pc = "done"
    /\ Len(acts) = 1
    /\ acts[1].op = "Error"
    /\ acts[1].at = 2
    /\ heap[acts[1].res].Code = 401
    /\ ran = << 2 >>
    /\ c.Writer.sent = 200

\* C7: a handled request whose handler used the envelope produced exactly one
\* envelope, stored exactly one under "result" and wrote exactly one body.
C7_ExactlyOneEnvelope ==
    (pc = "done" /\ EnvelopeActs # {}) =>
        /\ Len(heap) = 2
        /\ Cardinality(EnvelopeActs) = 1
        /\ Len(c.Writer.body) = 1

\* the [Receive] call of a finished request
ReceiveCalls == SelectSeq(calls, LAMBDA e : e.msg[1] = TagDefault)

\* C8: the traceId of the [Receive] line equals the requestId of every [Return]
\* line of the request, and without an envelope under "result" the [Receive]
\* line has no traceId field.
C8_TraceIdLinksLines ==
    pc = "done" =>
        /\ Len(ReceiveCalls) = 1
        /\ c.result = NoKey => "traceId" \notin DOMAIN ReceiveCalls[1].fields
        /\ \A j \in 1..Len(ReturnCalls) :
              /\ "traceId" \in DOMAIN ReceiveCalls[1].fields
              /\ ReceiveCalls[1].fields.traceId = ReturnCalls[j].fields.requestId

IsReceiveLine(e) == e.msg = << TagDefault, c.Request.fullPath >> /\ e.level = InfoLevel
ReceiveLines(lines) == { j \in 1..Len(lines) : lines[j].msg[1] = TagDefault }

\* C9: with Default at Info or lower, a finished request has exactly one
\* [Receive] Info line on each sink; it is the last line of the request, after
\* every [Return] and recovery line, it carries the status that was sent (204
\* for the /ping handler), and no [Receive] line exists while the chain runs.
C9_OneReceiveLineLast ==
    /\ pc \in {"handler", "recover", "fields"} => ReceiveLines(calls) = {}
    /\ (pc = "done" /\ GetLogLevel(Default.LogLevel) <= InfoLevel) =>
          /\ ReceiveLines(calls) = { Len(calls) }
          /\ ReceiveLines(console) = { Len(console) }
          /\ ReceiveLines(files[Default.LogPath]) = { Len(files[Default.LogPath]) }
          /\ IsReceiveLine(console[Len(console)])
          /\ console[Len(console)] = calls[Len(calls)]
          /\ files[Default.LogPath][Len(files[Default.LogPath])] = calls[Len(calls)]
          /\ console[Len(console)].fields.status = c.Writer.sent
          /\ console[Len(console)].fields.method = c.Request.Method
          /\ console[Len(console)].fields.path = c.Request.Path
          /\ (Len(acts) = 1 /\ acts[1].op = "JSON") => console[Len(console)].fields.status = 204

\* C9 witness: GET /ping served by the c.JSON(204, nil) handler left one
\* [Receive] line with status 204 as the only line of the request.
C9_Witness ==
    /\ pc = "done"
    /\ c.Request.Method = "GET"
    /\ c.Request.Path = "/ping"
    /\ Len(acts) = 1
    /\ acts[1].op = "JSON"
    /\ Len(console) = 1
    /\ console[1].msg = << TagDefault, "/ping" >>
    /\ console[1].fields.status = 204
    /\ console[1].fields.method = "GET"

\* a peer disconnect as the documentation describes it: a network-operation
\* error, wrapped or not, over a system-call error whose text names a broken
\* pipe or a connection reset by peer, in any letter case
SaysDisconnect(text) ==
    Contains(ToLower(text), T_brokenPipe) \/ Contains(ToLower(text), T_connReset)
IsPeerDisconnect(v) ==
    \/ v.type = "*net.OpError" /\ v.Err.type = "*os.SyscallError" /\ SaysDisconnect(v.Err.text)
    \/ v.type = "*fmt.wrapError" /\ v.Err.type = "*net.OpError" /\ SaysDisconnect(v.Err.text)

GeneralPanics == { i \in Acts({"panic"}) : ~ IsPeerDisconnect(acts[i].panic) }
RecoveryCalls == SelectSeq(calls, LAMBDA e : e.msg = << "[Recovery from panic]" >>)
Wrote(i) == acts[i].written

\* what holds of every general panic once GinRecovery has handled it
RecoveredOnce(i) ==
    /\ recovered = 1
    /\ Len(RecoveryCalls) = 1
    /\ RecoveryCalls[1].level = ErrorLevel
    /\ RecoveryCalls[1].fields.error = acts[i].panic
    /\ ("stack" \in DOMAIN RecoveryCalls[1].fields) <=> stack
    /\ IsAborted(c)
    /\ c.Errors = <<>>

\* C10 as stated: a panic that is not a peer disconnect is caught once, logged
\* once at Error as "[Recovery from panic]" (stack field iff the flag), the
\* chain is aborted and the response is 500 with no body.
C10_PanicGives500NoBody ==
    \A i \in GeneralPanics :
        pc \in {"fields", "done"} =>
            /\ RecoveredOnce(i)
            /\ c.Writer.sent = 500
            /\ c.Writer.body = <<>>

\* a route handler returned last in the chain without a panic
NoPanicReturn == pc = "handler" /\ pc' = "fields"

\* C10 amended: such a panic is caught once, makes one Error log call
\* "[Recovery from panic]" (stack field iff the flag; on the sinks iff the level
\* is Error or lower) and aborts the chain; the response is 500 with no body
\* when no header had been written before the panic, and otherwise keeps the
\* status and bodies written before.  Without a panic GinRecovery logs nothing
\* and changes neither the status, the error list nor the abort state.
C10_PanicGives500UnlessWritten ==
    /\ [] ( \A i \in GeneralPanics :
              pc \in {"fields", "done"} =>
                /\ RecoveredOnce(i)
                /\ (GetLogLevel(Default.LogLevel) <= ErrorLevel)
                      <=> (\E j \in 1..Len(console) : console[j] = RecoveryCalls[1])
                /\ ~ Wrote(i) => (c.Writer.sent = 500 /\ c.Writer.body = <<>>)
                /\ Wrote(i) => (c.Writer.sent = acts[i].sentBefore
                                /\ Len(c.Writer.body) = acts[i].nbody) )
    /\ [][ NoPanicReturn =>
              /\ calls' = calls
              /\ console' = console
              /\ recovered' = recovered
              /\ c'.Writer = c.Writer
              /\ c'.Errors = c.Errors
              /\ IsAborted(c') = IsAborted(c) ]_vars

\* C10 witness: a handler panicked with a plain value before anything was
\* written; with the stack flag set the request ended 500, no body, one
\* recovery call carrying a stack field.
C10_Witness ==
    /\ pc = "done"
    /\ stack
    /\ Len(acts) = 1
    /\ acts[1].op = "panic"
    /\ acts[1].panic = PanicString
    /\ recovered = 1
    /\ c.Writer.sent = 500
    /\ c.Writer.body = <<>>
    /\ Len(RecoveryCalls) = 1
    /\ "stack" \in DOMAIN RecoveryCalls[1].fields


(***************************************************************************)
(* Peer disconnects (Spec).                                                *)
(***************************************************************************)
DisconnectPanics == { i \in Acts({"panic"}) : IsPeerDisconnect(acts[i].panic) }
\* the log calls GinRecovery made: they alone carry an "error" field
RecoveryLogCalls == SelectSeq(calls, LAMBDA e : "error" \in DOMAIN e.fields)

\* what holds of a panic that GinRecovery handled as a peer disconnect
HandledAsDisconnect(i) ==
    /\ recovered = 1
    /\ Len(RecoveryLogCalls) = 1
    /\ RecoveryLogCalls[1].level = ErrorLevel
    /\ RecoveryLogCalls[1].msg = << c.Request.Path >>
    /\ RecoveryLogCalls[1].fields.error = acts[i].panic
    /\ PrivateErrors(c) = << [Err |-> acts[i].panic, Type |-> "private"] >>
    /\ IsAborted(c)
    /\ pc = "fields" => /\ c.Writer.sent = acts[i].sentBefore
                        /\ Written(c) = acts[i].written
                        /\ Len(c.Writer.body) = acts[i].nbody

\* C11: a panic with a network-operation error over a system-call error whose
\* text names a broken pipe or a connection reset by peer (any letter case),
\* wrapped or not, is handled as a peer disconnect: one Error log call, the
\* error appended to the private error list, the chain aborted, and no status
\* written by GinRecovery.
C11_DisconnectNoStatus ==
    \A i \in DisconnectPanics :
        pc \in {"fields", "done"} => HandledAsDisconnect(i)

\* the same for the errors the type assertions of GinRecovery see: the
\* panic value itself is the *net.OpError
C11_UnwrappedDisconnectNoStatus ==
    \A i \in DisconnectPanics :
        (pc \in {"fields", "done"} /\ acts[i].panic.type = "*net.OpError")
            => HandledAsDisconnect(i)


(***************************************************************************)
(* Properties of the GORM adapter (SpecGorm).                              *)
(***************************************************************************)
GormCalls == { j \in 1..Len(calls) : calls[j].msg[1] = TAG }
\* the lines Trace writes, by their tags; Info, Warn and Error of the adapter
\* write the other [GORM] lines
TraceTags == { "Query", "Slow Log", "ErrRecordNotFound", "Error" }
TraceLines == { j \in GormCalls : calls[j].msg \in { <<TAG, " ", t>> : t \in TraceTags } }
IsRecordNotFound(err) == ~ err.nil /\ ErrorsIs(err, "gorm.ErrRecordNotFound")

\* the k-th Trace call made one log call, with the statement, the elapsed
\* seconds and the row count
OneCallWithFields(k) ==
    /\ traces[k].at \in TraceLines
    /\ \A k2 \in 1..Len(traces) : traces[k2].at = traces[k].at => k2 = k
    /\ calls[traces[k].at].fields.sql = traces[k].fc.sql
    /\ calls[traces[k].at].fields.rows = traces[k].fc.rows
    /\ calls[traces[k].at].fields.time.sec * Second + calls[traces[k].at].fields.time.nsec
          = traces[k].elapsed

\* the level and tag of the k-th Trace call's line when slow is what isSlow says
LevelByPriority(k, isSlow) ==
    LET t == traces[k]
        e == calls[t.at]
    IN  CASE IsRecordNotFound(t.err) ->
               /\ e.level = WarnLevel
               /\ e.msg = <<TAG, " ", "ErrRecordNotFound">>
               /\ "error" \notin DOMAIN e.fields
          [] ~ t.err.nil /\ ~ IsRecordNotFound(t.err) ->
               /\ e.level = ErrorLevel
               /\ e.msg = <<TAG, " ", "Error">>
               /\ "error" \in DOMAIN e.fields
               /\ e.fields.error = t.err.text
          [] t.err.nil /\ isSlow ->
               /\ e.level = WarnLevel
               /\ e.msg = <<TAG, " ", "Slow Log">>
          [] OTHER ->
               /\ e.level = DebugLevel
               /\ e.msg = <<TAG, " ", "Query">>

\* C12 as stated: every Trace makes exactly one log call with statement,
\* seconds and rows; record-not-found logs at Warn, any other error at Error
\* with the error attached, no error and elapsed above the threshold at Warn
\* tagged slow, otherwise Debug tagged query.
C12_TraceLevels ==
    /\ Cardinality(TraceLines) = Len(traces)
    /\ \A k \in 1..Len(traces) :
          /\ OneCallWithFields(k)
          /\ LevelByPriority(k, traces[k].elapsed > traces[k].l.SlowThreshold)

\* C12 amended: the same, where a statement is slow when the threshold is not
\* zero and the elapsed time is above it.
C12_TraceLevelsNonZeroThreshold ==
    /\ Cardinality(TraceLines) = Len(traces)
    /\ \A k \in 1..Len(traces) :
          /\ OneCallWithFields(k)
          /\ LevelByPriority(k, traces[k].l.SlowThreshold # 0
                                /\ traces[k].elapsed > traces[k].l.SlowThreshold)

\* C12 witness: a statement that failed with an error other than record not
\* found and also ran longer than a non-zero threshold was logged at Error,
\* and a slow statement without error at Warn.
C12_Witness ==
    /\ Len(traces) = 2
    /\ traces[1].l.SlowThreshold = 200 * Millisecond
    /\ traces[1].elapsed = 1500 * Millisecond
    /\ traces[1].err = ErrNoTable
    /\ calls[traces[1].at].level = ErrorLevel
    /\ traces[2].l.SlowThreshold = 200 * Millisecond
    /\ traces[2].elapsed = 1500 * Millisecond
    /\ traces[2].err = ErrNil
    /\ calls[traces[2].at].msg = <<TAG, " ", "Slow Log">>


(***************************************************************************)
(* Properties of the shared logger (SpecShared).                           *)
(***************************************************************************)
\* the level LogMode is documented to set for a gorm level
ModeText(mode) ==
    IF mode = GormSilent THEN T_fatal
    ELSE IF mode = GormWarn THEN T_warn
    ELSE IF mode = GormError THEN T_error
    ELSE T_debug
ModeLevel(mode) ==
    IF mode = GormSilent THEN FatalLevel
    ELSE IF mode = GormWarn THEN WarnLevel
    ELSE IF mode = GormError THEN ErrorLevel
    ELSE DebugLevel

\* the default logger was last configured through the GORM adapter
ByGorm == lastCfg.by \in {"LogMode", "GetGormConfig"}
GormSetLevel ==
    IF lastCfg.by = "LogMode" THEN ModeLevel(lastMode) ELSE GetLogLevel(lastCfg.level)
Thresholds2(log) == { log.ZapLogger[k].level : k \in 1..Len(log.ZapLogger) }

\* a [Receive] line of GinLogger or a [Return] Info line of OK
IsReceiveOrReturnInfo(e) == e.level = InfoLevel /\ e.msg[1] \in {TagDefault, TagReturn}

\* C13: LogMode and GetGormConfig re-level the shared default logger (fatal
\* for Silent, debug for Info, warn for Warn, error for Error, debug for any
\* other value; the given level for GetGormConfig), every later log call of
\* any component is filtered by that level, and after GetGormConfig("error")
\* or LogMode(Silent) the [Receive] line and the [Return] Info line reach no sink.
C13_GormRelevelsShared ==
    /\ [] ( /\ lastCfg.by = "LogMode" =>
                 /\ Default.LogLevel = ModeText(lastMode)
                 /\ Thresholds2(Default) = { ModeLevel(lastMode) }
            /\ lastCfg.by = "GetGormConfig" =>
                 /\ Default.LogLevel = lastCfg.level
                 /\ Thresholds2(Default) = { GetLogLevel(lastCfg.level) } )
    /\ [][ (ByGorm /\ LogCallStep) =>
              /\ IF TheCall.level >= GormSetLevel
                 THEN ReachedBoth(Default.LogPath)
                 ELSE ReachedNeither
              /\ ( /\ \/ lastCfg.by = "GetGormConfig" /\ lastCfg.level = T_error
                      \/ lastCfg.by = "LogMode" /\ lastMode = GormSilent
                   /\ IsReceiveOrReturnInfo(TheCall) ) => ReachedNeither ]_vars

\* C13 witness: after LogMode(Silent) a request whose handler called OK and
\* then Error was served: the two [Return] calls and the [Receive] call were
\* made and nothing reached the console or a file.
C13_Witness ==
    /\ pc = "done"
    /\ lastCfg.by = "LogMode"
    /\ lastMode = GormSilent
    /\ Len(calls) = 3
    /\ calls[1].msg[1] = TagReturn /\ calls[1].level = InfoLevel
    /\ calls[2].msg[1] = TagReturn /\ calls[2].level = ErrorLevel
    /\ calls[3].msg[1] = TagDefault
    /\ console = <<>>
    /\ \A p \in Paths : files[p] = <<>>


\* C14: after Default is reassigned to New(level, path), the logger every
\* component reads is that one: it holds the given text and path and its
\* thresholds are the level resolved from the text, whatever SetLogLevel,
\* LogMode or GetGormConfig set before; every later call of GinLogger,
\* GinRecovery, OK/Error and the GORM adapter reaches the console and the new
\* file iff it is at or above that level, and no other file.
C14_ReplacedDefaultIsRead ==
    /\ [] ( lastCfg.by = "New" =>
              /\ Default.LogLevel = lastCfg.level
              /\ Default.LogPath = lastCfg.path
              /\ Thresholds2(Default) = { GetLogLevel(lastCfg.level) } )
    /\ [][ (lastCfg.by = "New" /\ LogCallStep) =>
              /\ (TheCall.level >= GetLogLevel(lastCfg.level)) => ReachedBoth(lastCfg.path)
              /\ (TheCall.level < GetLogLevel(lastCfg.level)) => ReachedNeither
              /\ \A p \in Paths \ {lastCfg.path} : files'[p] = files[p] ]_vars

\* C14 witness: an adapter was constructed and LogMode(Silent) silenced the
\* old logger; then Default was replaced by New("debug", "tmp/app.log"), a
\* request was served and a statement traced: the [Receive] line and the
\* Debug [GORM] line are on the console and in the new file only.
C14_Witness ==
    /\ lastCfg = [by |-> "New", level |-> T_debug, path |-> "tmp/app.log"]
    /\ lastMode = GormSilent
    /\ ~ gormLogger.nil
    /\ Len(calls) = 2
    /\ calls[1].msg[1] = TagDefault
    /\ calls[2].msg = <<TAG, " ", "Query">>
    /\ console = calls
    /\ files["tmp/app.log"] = calls
    /\ files[DefaultLogFile] = <<>>


(***************************************************************************)
(* Properties of the unlocked logger under two workers (SpecRace).         *)
(***************************************************************************)
AllIdle == \A w \in Workers : wk[w].pc = "idle"
\* the record of the log call made in this step
TheRaceCall == raceHist'[Len(raceHist')]

\* the step in which worker w's SetLogLevel stores the writer and returns
InstallStep(w) == wk[w].pc = "build" /\ wk'[w].pc = "idle"
\* the step in which the file core writes the entry of worker w's log call
FileStep(w) == wk[w].pc = "file" /\ wk'[w].pc = "idle"
\* the log calls made so far that the writer they read lets through
WrittenCalls == { k \in 1..Len(raceHist) : raceHist[k].level >= raceHist[k].threshold }

AtCapture ==
    IF Acts({"ReadBody"}) # {} THEN [arrived EXCEPT !.Body.data = <<>>] ELSE arrived

\* the query field of the [Receive] call of a finished request
CapturedQuery == ReceiveCalls[1].fields.query

\* what net/http's form parsing makes of the request at capture
FormParse ==
    IF SplitFirst(arrived.ContentType) = CT_urlencoded
    THEN ParseForm(AtCapture) ELSE ParseMultipartForm(AtCapture)

\* nothing of the capture reaches the errors, the log levels or the response
NothingSurfaced ==
    /\ c.Errors = <<>>
    /\ ReceiveCalls[1].fields.errors = <<>>
    /\ \A i \in 1..Len(calls) : calls[i].level <= InfoLevel
    /\ recovered = 0
    /\ c.Writer.sent = defaultStatus

\* The text of a JSON object of arrays of strings read back: a string ends at
\* its closing quote, \" \\ \n \r \t and \uXXXX stand for their characters;
\* the keys with their values in the order of the text.
RECURSIVE JSONReadString(_, _, _)
JSONReadString(text, i, value) ==
    IF i > Len(text) THEN [ok |-> FALSE, value |-> value, next |-> i]
    ELSE IF text[i] = "\"" THEN [ok |-> TRUE, value |-> value, next |-> i + 1]
    ELSE IF text[i] # "\\" THEN JSONReadString(text, i + 1, Append(value, text[i]))
    ELSE IF i + 1 > Len(text) THEN [ok |-> FALSE, value |-> value, next |-> i]
    ELSE IF text[i + 1] = "u"
    THEN IF i + 5 > Len(text) THEN [ok |-> FALSE, value |-> value, next |-> i]
         ELSE JSONReadString(text, i + 6,
                  Append(value, CharOf(4096 * Unhex(text[i + 2]) + 256 * Unhex(text[i + 3])
                                         + 16 * Unhex(text[i + 4]) + Unhex(text[i + 5]))))
    ELSE JSONReadString(text, i + 2,
             Append(value, CASE text[i + 1] = "n" -> "\n"
                             [] text[i + 1] = "r" -> "\r"
                             [] text[i + 1] = "t" -> "\t"
                             [] OTHER -> text[i + 1]))

RECURSIVE JSONReadArray(_, _, _)
JSONReadArray(text, i, values) ==
    IF i > Len(text) THEN [ok |-> FALSE, values |-> values, next |-> i]
    ELSE IF text[i] = "]" THEN [ok |-> TRUE, values |-> values, next |-> i + 1]
    ELSE IF text[i] = "," THEN JSONReadArray(text, i + 1, values)
    ELSE IF text[i] # "\"" THEN [ok |-> FALSE, values |-> values, next |-> i]
    ELSE LET str == JSONReadString(text, i + 1, <<>>)
         IN  IF ~str.ok THEN [ok |-> FALSE, values |-> values, next |-> i]
             ELSE JSONReadArray(text, str.next, Append(values, str.value))

RECURSIVE JSONReadObject(_, _, _)
JSONReadObject(text, i, m) ==
    IF i > Len(text) THEN [ok |-> FALSE, m |-> m]
    ELSE IF text[i] = "}" THEN [ok |-> i = Len(text), m |-> m]
    ELSE IF text[i] = "," THEN JSONReadObject(text, i + 1, m)
    ELSE IF text[i] # "\"" THEN [ok |-> FALSE, m |-> m]
    ELSE LET key == JSONReadString(text, i + 1, <<>>)
             arr == JSONReadArray(text, key.next + 2, <<>>)
         IN  IF \/ ~key.ok
                \/ key.next + 1 > Len(text)
                \/ text[key.next] # ":"
                \/ text[key.next + 1] # "["
                \/ ~arr.ok
                \/ key.value \in DOMAIN m
             THEN [ok |-> FALSE, m |-> m]
             ELSE JSONReadObject(text, arr.next,
                      [k \in DOMAIN m \cup {key.value} |->
                          IF k = key.value THEN arr.values ELSE m[k]])

\* the query field read as JSON
QueryAsJSON ==
    IF CapturedQuery # <<>> /\ Head(CapturedQuery) = "{"
    THEN JSONReadObject(CapturedQuery, 2, <<>>)
    ELSE [ok |-> FALSE, m |-> <<>>]

\* What the code logs for form requests, worked out from net/http and
\* encoding/json: the content type, the raw query and the body of the
\* request, and the query field of its [Receive] line when no handler has read
\* the body.
LoggedForms ==
    {
      [ ContentType |-> <<"a","p","p","l","i","c","a","t","i","o","n","/","x","-","w","w","w","-","f","o","r","m","-","u","r","l","e","n","c","o","d","e","d">>,
        RawQuery |-> <<>>,
        Body |-> <<"a","=","1","&","b","=","2">>,
        query |-> <<"{","\"","a","\"",":","[","\"","1","\"","]",",","\"","b","\"",":","[","\"","2","\"","]","}">> ],
      [ ContentType |-> <<"a","p","p","l","i","c","a","t","i","o","n","/","x","-","w","w","w","-","f","o","r","m","-","u","r","l","e","n","c","o","d","e","d">>,
        RawQuery |-> <<"q","=","1">>,
        Body |-> <<"b","=","x","+","y","&","a","=","%","2","6","&","b","=","2">>,
        query |-> <<"{","\"","a","\"",":","[","\"","\\","u","0","0","2","6","\"","]",",","\"","b","\"",":","[","\"","x"," ","y","\"",",","\"","2","\"","]","}">> ],
      [ ContentType |-> <<"a","p","p","l","i","c","a","t","i","o","n","/","x","-","w","w","w","-","f","o","r","m","-","u","r","l","e","n","c","o","d","e","d">>,
        RawQuery |-> <<"q","=","1">>,
        Body |-> <<"%","3","C","=","%","3","E","%","5","C","&","b","=","%","0","A","%","0","D","%","0","9","&","c","=","%","2","2","%","2","6","%","7","E">>,
        query |-> <<"{","\"","\\","u","0","0","3","c","\"",":","[","\"","\\","u","0","0","3","e","\\","\\","\"","]",",","\"","b","\"",":","[","\"","\\","n","\\","r","\\","t","\"","]",",","\"","c","\"",":","[","\"","\\","\"","\\","u","0","0","2","6","~","\"","]","}">> ],
      [ ContentType |-> <<"a","p","p","l","i","c","a","t","i","o","n","/","x","-","w","w","w","-","f","o","r","m","-","u","r","l","e","n","c","o","d","e","d">>,
        RawQuery |-> <<>>,
        Body |-> <<"a","=","%","z","z">>,
        query |-> <<>> ],
      [ ContentType |-> <<"a","p","p","l","i","c","a","t","i","o","n","/","x","-","w","w","w","-","f","o","r","m","-","u","r","l","e","n","c","o","d","e","d">>,
        RawQuery |-> <<"q","=","1">>,
        Body |-> <<"a","=","%","z","z">>,
        query |-> <<"q","=","1">> ],
      [ ContentType |-> <<"a","p","p","l","i","c","a","t","i","o","n","/","x","-","w","w","w","-","f","o","r","m","-","u","r","l","e","n","c","o","d","e","d">>,
        RawQuery |-> <<"q","=","%","z","z">>,
        Body |-> <<"a","=","1">>,
        query |-> <<"q","=","%","z","z">> ],
      [ ContentType |-> <<"a","p","p","l","i","c","a","t","i","o","n","/","x","-","w","w","w","-","f","o","r","m","-","u","r","l","e","n","c","o","d","e","d",";"," ","c","h","a","r","s","e","t","=","u","t","f","-","8">>,
        RawQuery |-> <<"q","=","1">>,
        Body |-> <<"a","=","1">>,
        query |-> <<"{","\"","a","\"",":","[","\"","1","\"","]","}">> ],
      [ ContentType |-> <<"a","p","p","l","i","c","a","t","i","o","n","/","x","-","w","w","w","-","f","o","r","m","-","u","r","l","e","n","c","o","d","e","d",";"," ","x">>,
        RawQuery |-> <<"q","=","1">>,
        Body |-> <<"a","=","1">>,
        query |-> <<"q","=","1">> ],
      [ ContentType |-> <<"a","p","p","l","i","c","a","t","i","o","n","/","x","-","w","w","w","-","f","o","r","m","-","u","r","l","e","n","c","o","d","e","d",";"," ","a","=","1",";"," ","a","=","2">>,
        RawQuery |-> <<"q","=","1">>,
        Body |-> <<"a","=","1">>,
        query |-> <<"q","=","1">> ],
      [ ContentType |-> <<"m","u","l","t","i","p","a","r","t","/","f","o","r","m","-","d","a","t","a",";"," ","b","o","u","n","d","a","r","y","=","B">>,
        RawQuery |-> <<>>,
        Body |-> <<"-","-","B","f","o","r","m","-","d","a","t","a","a","1","-","-","B","f","o","r","m","-","d","a","t","a","b","2","-","-","B","-","-">>,
        query |-> <<"{","\"","a","\"",":","[","\"","1","\"","]",",","\"","b","\"",":","[","\"","2","\"","]","}">> ],
      [ ContentType |-> <<"m","u","l","t","i","p","a","r","t","/","f","o","r","m","-","d","a","t","a",";"," ","b","o","u","n","d","a","r","y","=","B">>,
        RawQuery |-> <<"q","=","1">>,
        Body |-> <<"-","-","B","f","o","r","m","-","d","a","t","a","a","<","-","-","B","f","o","r","m","-","d","a","t","a","b","\\","-","-","B","-","-">>,
        query |-> <<"{","\"","a","\"",":","[","\"","\\","u","0","0","3","c","\"","]",",","\"","b","\"",":","[","\"","\\","\\","\"","]","}">> ],
      [ ContentType |-> <<"m","u","l","t","i","p","a","r","t","/","f","o","r","m","-","d","a","t","a",";"," ","b","o","u","n","d","a","r","y","=","B">>,
        RawQuery |-> <<"q","=","1">>,
        Body |-> <<"-","-","B","f","o","r","m","-","d","a","t","a","a","1">>,
        query |-> <<"q","=","1">> ],
      [ ContentType |-> <<"m","u","l","t","i","p","a","r","t","/","f","o","r","m","-","d","a","t","a">>,
        RawQuery |-> <<"q","=","1">>,
        Body |-> <<"-","-","B","f","o","r","m","-","d","a","t","a","a","1","-","-","B","-","-">>,
        query |-> <<"q","=","1">> ],
      [ ContentType |-> <<"m","u","l","t","i","p","a","r","t","/","f","o","r","m","-","d","a","t","a",";"," ","c","h","a","r","s","e","t","=","u","t","f","-","8",";"," ","b","o","u","n","d","a","r","y","=","B">>,
        RawQuery |-> <<"q","=","1">>,
        Body |-> <<"-","-","B","f","o","r","m","-","d","a","t","a","a","1","-","-","B","-","-">>,
        query |-> <<"{","\"","a","\"",":","[","\"","1","\"","]","}">> ],
      [ ContentType |-> <<"m","u","l","t","i","p","a","r","t","/","f","o","r","m","-","d","a","t","a",";"," ","b","o","u","n","d","a","r","y","=","B",";"," ","c","h","a","r","s","e","t","=","u","t","f","-","8">>,
        RawQuery |-> <<"q","=","1">>,
        Body |-> <<"-","-","B","f","o","r","m","-","d","a","t","a","a","1","-","-","B","-","-">>,
        query |-> <<"{","\"","a","\"",":","[","\"","1","\"","]","}">> ],
      [ ContentType |-> <<"m","u","l","t","i","p","a","r","t","/","f","o","r","m","-","d","a","t","a",";"," ","b","o","u","n","d","a","r","y","=","\"","B","\"">>,
        RawQuery |-> <<"q","=","1">>,
        Body |-> <<"-","-","B","f","o","r","m","-","d","a","t","a","a","1","-","-","B","-","-">>,
        query |-> <<"{","\"","a","\"",":","[","\"","1","\"","]","}">> ],
      [ ContentType |-> <<"m","u","l","t","i","p","a","r","t","/","f","o","r","m","-","d","a","t","a",";"," ","B","o","u","n","d","a","r","y","=","B",";">>,
        RawQuery |-> <<"q","=","1">>,
        Body |-> <<"-","-","B","f","o","r","m","-","d","a","t","a","a","1","-","-","B","-","-">>,
        query |-> <<"{","\"","a","\"",":","[","\"","1","\"","]","}">> ],
      [ ContentType |-> <<"m","u","l","t","i","p","a","r","t","/","f","o","r","m","-","d","a","t","a",";"," ","b","o","u","n","d","a","r","y","*","=","u","t","f","-","8","'","'","%","4","2">>,
        RawQuery |-> <<"q","=","1">>,
        Body |-> <<"-","-","B","f","o","r","m","-","d","a","t","a","a","1","-","-","B","-","-">>,
        query |-> <<"{","\"","a","\"",":","[","\"","1","\"","]","}">> ],
      [ ContentType |-> <<"m","u","l","t","i","p","a","r","t","/","f","o","r","m","-","d","a","t","a",";"," ","b","o","u","n","d","a","r","y","*","0","=","B",";"," ","b","o","u","n","d","a","r","y","*","1","=","C">>,
        RawQuery |-> <<"q","=","1">>,
        Body |-> <<"-","-","B","C","f","o","r","m","-","d","a","t","a","a","1","-","-","B","C","-","-">>,
        query |-> <<"{","\"","a","\"",":","[","\"","1","\"","]","}">> ],
      [ ContentType |-> <<"m","u","l","t","i","p","a","r","t","/","f","o","r","m","-","d","a","t","a",";"," ","b","o","u","n","d","a","r","y","=","B",";"," ","b","o","u","n","d","a","r","y","=","C">>,
        RawQuery |-> <<"q","=","1">>,
        Body |-> <<"-","-","B","f","o","r","m","-","d","a","t","a","a","1","-","-","B","-","-">>,
        query |-> <<"q","=","1">> ],
      [ ContentType |-> <<"a","p","p","l","i","c","a","t","i","o","n","/","f","o","r","m","-","d","a","t","a">>,
        RawQuery |-> <<"q","=","1">>,
        Body |-> <<"a","=","1">>,
        query |-> <<"q","=","1">> ] }

\* C16 as stated: for a POST with a URL-encoded or multipart content type the
\* query field of the [Receive] line is the parsed form serialized when
\* parsing succeeds and empty when it fails; for any other method it is the
\* raw query string; a parse failure surfaces nowhere.
C16_FormOrEmpty ==
    pc = "done" =>
        /\ (arrived.Method = "POST"
              /\ ToLower(TrimSpace(SplitFirst(arrived.ContentType)))
                    \in {CT_urlencoded, CT_multipart}) =>
                 IF ~FormParse.err
                 THEN CapturedQuery = MarshalValues(FormParse.r.PostForm.m)
                 ELSE CapturedQuery = <<>>
        /\ arrived.Method # "POST" => CapturedQuery = arrived.RawQuery
        /\ NothingSurfaced

\* C16 amended: for a POST whose Content-Type up to its first ";" is, letter for
\* letter, application/x-www-form-urlencoded, application/form-data or
\* multipart/form-data, the query field of the [Receive] line is the parsed
\* post form serialized as JSON when parsing succeeds (read back as JSON it is
\* the post form) and the raw query string of the URL when it fails; for any
\* other method it is the raw query string; a parse failure surfaces nowhere.
\* For the form requests of LoggedForms the field is the text worked out from
\* the libraries: the body "b=x+y&a=%26&b=2" is logged as
\* {"a":["\u0026"],"b":["x y","2"]}, the body "%3C=%3E%5C&b=%0A%0D%09&c=%22%26%7E"
\* as {"\u003c":["\u003e\\"],"b":["\n\r\t"],"c":["\"\u0026~"]}, the header
\* "multipart/form-data; charset=utf-8; boundary=B" parses and
\* "application/x-www-form-urlencoded; x" logs the raw query.  A URL-encoded
\* body that a handler has read to its end is logged as {}.
C16_FormOrRawQuery ==
    pc = "done" =>
        /\ (arrived.Method = "POST"
              /\ SplitFirst(arrived.ContentType) \in {CT_urlencoded, CT_formdata, CT_multipart}) =>
                 IF ~FormParse.err
                 THEN /\ CapturedQuery = MarshalValues(FormParse.r.PostForm.m)
                      /\ c.Request.PostForm = FormParse.r.PostForm
                      /\ QueryAsJSON.ok
                      /\ QueryAsJSON.m = c.Request.PostForm.m
                 ELSE CapturedQuery = arrived.RawQuery
        /\ arrived.Method # "POST" => CapturedQuery = arrived.RawQuery
        /\ \A form \in LoggedForms :
              ( /\ arrived.Method = "POST"
                /\ arrived.ContentType = form.ContentType
                /\ arrived.RawQuery = form.RawQuery
                /\ arrived.Body = [data |-> form.Body, err |-> FALSE]
                /\ Acts({"ReadBody"}) = {} ) => CapturedQuery = form.query
        /\ (arrived.Method = "POST" /\ arrived.ContentType = CT_urlencoded
              /\ arrived.RawQuery \in {<<>>, <<"q","=","1">>}
              /\ ~arrived.Body.err /\ Acts({"ReadBody"}) # {}) =>
                 CapturedQuery = <<"{","}">>
        /\ (arrived.Method = "POST" /\ arrived.Body.err
              /\ SplitFirst(arrived.ContentType) = CT_urlencoded) =>
                 CapturedQuery = arrived.RawQuery
        /\ NothingSurfaced

\* C16 witness: a URL-encoded POST to /form?q=1 whose body "a=%zz" does not
\* parse has finished, and its [Receive] line carries the raw query "q=1".
C16_Witness ==
    /\ pc = "done"
    /\ arrived.Method = "POST"
    /\ arrived.ContentType = CT_urlencoded
    /\ arrived.Body.data = <<"a","=","%","z","z">>
    /\ FormParse.err
    /\ CapturedQuery = <<"q","=","1">>

\* a content type that is none of the form types, however it is cased
OtherThanForm(r) ==
    ToLower(TrimSpace(SplitFirst(r.ContentType))) \notin {CT_urlencoded, CT_formdata, CT_multipart}

\* C17: for a POST with a content type other than form data whose body can be
\* read, the query field of the [Receive] line is the body the request arrived
\* with, and after the capture the request body is readable with that same
\* content, whatever the handlers did, reading the body included.
C17_RawBodyCapturedAndKept ==
    (pc = "done" /\ arrived.Method = "POST" /\ OtherThanForm(arrived) /\ ~arrived.Body.err) =>
        /\ CapturedQuery = arrived.Body.data
        /\ c.Request.Body = arrived.Body

\* C17 for handlers that leave the body alone
C17_RawBodyCapturedUnlessRead ==
    (pc = "done" /\ arrived.Method = "POST" /\ OtherThanForm(arrived) /\ ~arrived.Body.err
       /\ Acts({"ReadBody"}) = {}) =>
        /\ CapturedQuery = arrived.Body.data
        /\ c.Request.Body = arrived.Body

\* a JSON POST whose handler read the body was logged with an empty query
C17_ReadBodyLogsEmpty ==
    /\ pc = "done"
    /\ arrived.Method = "POST"
    /\ arrived.ContentType = CT_json
    /\ arrived.Body.data = <<"{","\"","a","\"",":","1","}">>
    /\ Acts({"ReadBody"}) # {}
    /\ CapturedQuery = <<>>
    /\ c.Request.Body.data = <<>>

\* C18: whenever no call is in progress, the logger's LogLevel is the text last
\* given to New or SetLogLevel, letter for letter and also when no level has
\* that name; both cores of its writer have the threshold GetLogLevel resolves
\* from that text; LogPath is the path given to New, and the file core writes
\* to it.
C18_TextThresholdPathAgree ==
    /\ Default.LogLevel = lastCfg.level
    /\ Len(Default.ZapLogger) = 2
    /\ Thresholds2(Default) = { GetLogLevel(Default.LogLevel) }
    /\ Default.LogPath = lastCfg.path
    /\ Default.ZapLogger[1].sink = "console"
    /\ Default.ZapLogger[2].sink = "file"
    /\ Default.ZapLogger[2].path = lastCfg.path

\* C18 witness: a logger built by New with the path tmp/app.log wrote a Debug
\* call there, was then given the unrecognised text "invalid" by SetLogLevel,
\* and now holds that text, the threshold Info and the same path, and has
\* dropped a Debug call.
C18_Witness ==
    /\ lastCfg.by = "SetLogLevel"
    /\ lastCfg.path = "tmp/app.log"
    /\ Default.LogLevel = T_invalid
    /\ Thresholds2(Default) = { InfoLevel }
    /\ Default.LogPath = "tmp/app.log"
    /\ Len(calls) = 2
    /\ calls[1].level = DebugLevel /\ calls[2].level = DebugLevel
    /\ files["tmp/app.log"] = << calls[1] >>

\* C19: every adapter handed out by GetGormConfig has the slow threshold zero
\* and keeps it; no Trace call on it is logged as "Slow Log", and one without
\* an error is logged at Debug tagged Query, whatever the elapsed time.
C19_ZeroThresholdNeverSlow ==
    /\ ~ gormLogger.nil => gormLogger.SlowThreshold = 0
    /\ Cardinality(TraceLines) = Len(traces)
    /\ \A k \in 1..Len(traces) :
          /\ traces[k].l.SlowThreshold = 0
          /\ calls[traces[k].at].msg # <<TAG, " ", "Slow Log">>
          /\ traces[k].err.nil =>
                /\ calls[traces[k].at].level = DebugLevel
                /\ calls[traces[k].at].msg = <<TAG, " ", "Query">>

\* C19 witness: after GetGormConfig("debug") two statements without error were
\* traced on its adapter, one of 200ms and one of 1.5s, and both were written
\* at Debug tagged Query.
C19_Witness ==
    /\ lastCfg.by = "GetGormConfig"
    /\ lastCfg.level = T_debug
    /\ Len(traces) = 2
    /\ traces[1].err.nil /\ traces[2].err.nil
    /\ traces[1].elapsed = 200 * Millisecond
    /\ traces[2].elapsed = 1500 * Millisecond
    /\ Len(console) = 2
    /\ \A j \in 1..2 : console[j].level = DebugLevel /\ console[j].msg = <<TAG, " ", "Query">>

====
